---- MODULE Spec2Model ----
(***************************************************************************)
(* Chain-of-action: the execution engine (src/core/engine.py), its         *)
(* execution context (src/core/context.py), the advisor                    *)
(* (src/core/advisor.py), the action catalog (src/core/action_type.py),    *)
(* the cost tracker (src/monitoring/tracker.py) and the Claude CLI         *)
(* provider (src/llm/claude.py), as one state machine.                     *)
(*                                                                         *)
(* Python values are represented as follows.                               *)
(*   - a dict is a TLA+ function whose domain is its key set;              *)
(*   - a list is a sequence;                                               *)
(*   - None, where a string or a record is expected, is the string None;   *)
(*   - a JSON value whose Python type matters (the structured output of a  *)
(*     call) is a tagged record [t |-> "None" | "dict" | "list" | "int"];  *)
(*   - a text (the result text of a CLI call) is a tagged record that      *)
(*     says what the text contains, see _parse_json_response;              *)
(*   - cost_usd is counted in whole cost units, duration_ms in whole ms;   *)
(*   - the float returned by plan_adherence_rate is the pair               *)
(*     <<numerator, denominator>>.                                         *)
(***************************************************************************)
EXTENDS Integers, Sequences, FiniteSets, TLC

\* ------------------------------------------------------------------------
\* Bounds of the model
\* ------------------------------------------------------------------------

\* Largest max_turns argument passed to Engine.run.
MaxTurnsBound == 4

\* Longest step list of a context built directly.
MaxSteps == 4

\* Number of runs made with one engine and one provider.
MaxRuns == 2

\* Number of steps a provider answers before it says it is done, in the
\* interleaved runs.
MaxConcSteps == 2

\* Number of events of a stream passed to _extract_tool_calls directly.
MaxEvents == 3

\* Number of add calls made on a catalog built directly.
MaxAdds == 3

\* Number of record calls made on a tracker used directly.
MaxRecords == 3

\* Largest plan_cursor argument passed to build_recommendation directly.
MaxCursor == 4

\* ------------------------------------------------------------------------
\* Python helpers
\* ------------------------------------------------------------------------

None == "None"

EmptyDict == [k \in {} |-> None]

\* dict.get(key, default)
Get(d, k, default) == IF k \in DOMAIN d THEN d[k] ELSE default

\* d[k] = v
SetItem(d, k, v) == [x \in DOMAIN d \cup {k} |-> IF x = k THEN v ELSE d[x]]

\* min(a, b)
Min(a, b) == IF a < b THEN a ELSE b

\* Tagged JSON values, as json.loads returns them.
JNone == [t |-> "None"]
JDict(d) == [t |-> "dict", d |-> d]
JList(n) == [t |-> "list", n |-> n]
JInt(v) == [t |-> "int", v |-> v]

\* bool(x) of a tagged JSON value.
Truthy(j) ==
    CASE j.t = "None" -> FALSE
      [] j.t = "dict" -> DOMAIN j.d # {}
      [] j.t = "list" -> j.n > 0
      [] j.t = "int" -> j.v # 0

\* Outcome of an operation that can raise: the value it returned, or the
\* fact that it raised.
Ok(v) == [ok |-> TRUE, v |-> v]

Raise == [ok |-> FALSE]

Raised(x) == ~x.ok

\* ------------------------------------------------------------------------
\* src/core/action_type.py
\* ------------------------------------------------------------------------

\* ActionType(name, description, suggested_next, tools): the description is
\* prompt text only and is left out.
ActionType(name, suggested_next, tools) ==
    [name |-> name, suggested_next |-> suggested_next, tools |-> tools]

\* add that keeps the entry a name already has (dict.setdefault).
add_keep_first(types, at) ==
    [n \in DOMAIN types \cup {at.name} |->
        IF n \in DOMAIN types THEN types[n] ELSE at]

\* ActionCatalog.add: self.types[action_type.name] = action_type
add(types, at) ==
    [n \in DOMAIN types \cup {at.name} |-> IF n = at.name THEN at ELSE types[n]]

\* default_salary_catalog(): the catalog the engine is constructed with.
default_salary_catalog ==
    LET c0 == EmptyDict
        c1 == add(c0, ActionType("analyze", <<"plan", "compute">>, <<>>))
        c2 == add(c1, ActionType("plan", <<"compute">>, <<>>))
        c3 == add(c2, ActionType("compute", <<"verify", "compute">>,
                                 <<"calc", "compound", "stats">>))
        c4 == add(c3, ActionType("verify", <<"compute", "synthesize">>,
                                 <<"calc", "compound">>))
        c5 == add(c4, ActionType("synthesize", <<"done">>, <<>>))
        c6 == add(c5, ActionType("done", <<>>, <<>>))
    IN c6

\* The keys of the types dict after add: assigning to a key the dict has
\* keeps the key's place, a new key goes to the end.
KeysAfterAdd(keys, types, at) ==
    IF at.name \in DOMAIN types THEN keys ELSE Append(keys, at.name)

\* ActionCatalog.get
get(types, name) == Get(types, name, None)

\* ActionCatalog.type_names: the keys of the dict in their order.
type_names(keys) == keys

\* get_suggestions with the terminal type suggested after an unknown type.
get_suggestions_default_done(types, current) ==
    IF current \notin DOMAIN types THEN << "done" >>
    ELSE types[current].suggested_next

\* ActionCatalog.get_suggestions
get_suggestions(types, current) ==
    IF current \notin DOMAIN types THEN <<>> ELSE types[current].suggested_next

\* ------------------------------------------------------------------------
\* src/core/advisor.py
\* ------------------------------------------------------------------------

\* ActionAdvisor.build_system_prompt: the initial instructions.  The text
\* names no plan step; it is one fixed part.
build_system_prompt == << [part |-> "system_prompt"] >>

\* ActionAdvisor.build_plan_prompt: the planning instructions.
build_plan_prompt == << [part |-> "plan_prompt"] >>

\* plan[i] for a Python index i: 0-based, a negative index counts from the
\* end, IndexError outside -len..len-1.
PlanAt(plan, i) ==
    IF i >= 0 /\ i < Len(plan) THEN Ok(plan[i + 1])
    ELSE IF i < 0 /\ i >= 0 - Len(plan) THEN Ok(plan[Len(plan) + i + 1])
    ELSE Raise

\* history[-3:]
Last3(history) ==
    IF Len(history) <= 3 THEN history
    ELSE SubSeq(history, Len(history) - 2, Len(history))

\* The index taken without the clamp to the last entry.
current_idx_unclamped(plan, plan_cursor) == plan_cursor

\* The index taken round the plan again once the cursor has passed its end.
current_idx_wraps(plan, plan_cursor) ==
    IF Len(plan) = 0 THEN 0 - 1 ELSE plan_cursor % Len(plan)

\* The index build_recommendation subscripts the plan with (advisor.py 98).
current_idx(plan, plan_cursor) == Min(plan_cursor, Len(plan) - 1)

\* The plan branch of build_recommendation (advisor.py 96-107).
PlanParts(plan, plan_cursor) ==
    LET total == Len(plan)
        idx == current_idx(plan, plan_cursor)
        step_info == PlanAt(plan, idx)
        expected_type == Get(step_info.v, "action_type", "unknown")
        expected_desc == Get(step_info.v, "description", "")
        is_final == (expected_type = "done")
    IN  IF Raised(step_info) THEN Raise
        ELSE Ok(<< [part |-> "step", k |-> idx + 1, total |-> total],
                   [part |-> "execute", type |-> expected_type,
                    desc |-> expected_desc] >>
                \o (IF ~is_final THEN << [part |-> "no_combine"] >>
                                 ELSE << >>))

\* The no-plan branch of build_recommendation (advisor.py 108-117).
NoPlanParts(types, last_type) ==
    << [part |-> "last", last_type |-> last_type,
        suggestions |-> get_suggestions(types, last_type)] >>

\* The nudge given when the whole history has one type.
NudgeParts_whole_history(history) ==
    IF Len(history) >= 3
       /\ Cardinality({history[i].action_type : i \in 1..Len(history)}) = 1
    THEN << [part |-> "nudge", n |-> 3, type |-> history[1].action_type] >>
    ELSE << >>

\* The repetition nudge of build_recommendation (advisor.py 119-126).
NudgeParts(history) ==
    IF Len(history) >= 3
    THEN LET recent_types == [i \in 1..3 |-> Last3(history)[i].action_type]
         IN  IF Cardinality({recent_types[i] : i \in 1..3}) = 1
             THEN << [part |-> "nudge", n |-> 3, type |-> recent_types[1]] >>
             ELSE << >>
    ELSE << >>

\* The plan branch taken for every plan argument, empty or not (`if plan
\* is not None`).
build_recommendation_always_plan(types, last_type, history, plan, plan_cursor) ==
    LET parts == PlanParts(plan, plan_cursor)
    IN  IF Raised(parts) THEN Raise
        ELSE Ok(parts.v \o NudgeParts(history))

\* ActionAdvisor.build_recommendation: the parts joined into the text.
build_recommendation(types, last_type, history, plan, plan_cursor) ==
    LET parts == IF Len(plan) > 0 THEN PlanParts(plan, plan_cursor)
                                  ELSE Ok(NoPlanParts(types, last_type))
    IN  IF Raised(parts) THEN Raise
        ELSE Ok(parts.v \o NudgeParts(history))

\* ------------------------------------------------------------------------
\* src/monitoring/tracker.py
\* ------------------------------------------------------------------------

\* TokenStats()
TokenStats == [cost_usd |-> 0, duration_ms |-> 0, calls |-> 0]

\* TokenUsage(cost_usd, duration_ms)
TokenUsage(cost_usd, duration_ms) ==
    [cost_usd |-> cost_usd, duration_ms |-> duration_ms]

\* cost_usd is a Python float: a binary floating-point number whose sum is
\* rounded to the nearest representable value, ties to the even mantissa.
\* The model counts cost in whole units and keeps MantissaBits significant
\* bits where a double keeps 53, so that rounding happens at small sums.
MantissaBits == 3

\* The distance between neighbouring floats at the magnitude of x.
RECURSIVE Ulp(_)
Ulp(x) == IF x < 2 ^ MantissaBits THEN 1 ELSE 2 * Ulp(x \div 2)

\* The float nearest to the number x >= 0.
RoundFloat(x) ==
    LET u == Ulp(x)
        q == x \div u
        r == x % u
    IN  IF 2 * r < u THEN q * u
        ELSE IF 2 * r > u THEN (q + 1) * u
        ELSE IF q % 2 = 0 THEN q * u
        ELSE (q + 1) * u

\* a + b of two floats
FloatAdd(a, b) == RoundFloat(a + b)

\* TokenTracker.record
record(stats, action_type, usage) ==
    LET s == IF action_type \notin DOMAIN stats THEN TokenStats
             ELSE stats[action_type]
        s1 == [cost_usd |-> FloatAdd(s.cost_usd, usage.cost_usd),
               duration_ms |-> s.duration_ms + usage.duration_ms,
               calls |-> s.calls + 1]
    IN  [k \in DOMAIN stats \cup {action_type} |->
            IF k = action_type THEN s1 ELSE stats[k]]

\* The keys of the stats dict after record: a new key goes to the end.
KeysAfterRecord(keys, stats, action_type) ==
    IF action_type \in DOMAIN stats THEN keys ELSE Append(keys, action_type)

\* sum(s.cost_usd for s in self.stats.values()): from 0, in the order of the
\* first n keys.
RECURSIVE CostOfFirst(_, _, _)
CostOfFirst(stats, keys, n) ==
    IF n = 0 THEN 0
    ELSE FloatAdd(CostOfFirst(stats, keys, n - 1), stats[keys[n]].cost_usd)

\* TokenTracker.total_cost
total_cost(stats, keys) == CostOfFirst(stats, keys, Len(keys))

RECURSIVE CallsOfFirst(_, _, _)
CallsOfFirst(stats, keys, n) ==
    IF n = 0 THEN 0
    ELSE CallsOfFirst(stats, keys, n - 1) + stats[keys[n]].calls

\* TokenTracker.total_calls
total_calls(stats, keys) == CallsOfFirst(stats, keys, Len(keys))

\* TokenTracker.report
report(stats, keys) ==
    [per_action_type |-> [k \in DOMAIN stats |->
                            [cost_usd |-> stats[k].cost_usd,
                             duration_ms |-> stats[k].duration_ms,
                             calls |-> stats[k].calls]],
     total_cost_usd |-> total_cost(stats, keys),
     total_calls |-> total_calls(stats, keys)]

\* ------------------------------------------------------------------------
\* src/core/context.py
\* ------------------------------------------------------------------------

\* ActionStep(action_type, thinking, response, tool_calls, planned_type);
\* cost keeps its default None.
ActionStep(action_type, thinking, response, tool_calls, planned_type) ==
    [action_type |-> action_type, thinking |-> thinking,
     response |-> response, tool_calls |-> tool_calls,
     planned_type |-> planned_type, cost |-> None]

\* ExecutionContext(task=task)
ExecutionContext(task) ==
    [task |-> task, plan |-> << >>, plan_cursor |-> 0, steps |-> << >>,
     turn_count |-> 0, cost_stats |-> EmptyDict]

\* The loop of plan_adherence_rate (context.py 67-70): matches after the
\* first n steps.
\* The counts dict after the first n iterations of the loop of
\* action_type_counts.
RECURSIVE CountsAfter(_, _)
CountsAfter(steps, n) ==
    IF n = 0 THEN EmptyDict
    ELSE LET counts == CountsAfter(steps, n - 1)
             t == steps[n].action_type
         IN  SetItem(counts, t, Get(counts, t, 0) + 1)

\* The loop with counts[step.action_type] = 1 as its body.
action_type_counts_presence(c) ==
    [t \in { c.steps[i].action_type : i \in 1..Len(c.steps) } |-> 1]

\* ExecutionContext.action_type_counts
action_type_counts(c) == CountsAfter(c.steps, Len(c.steps))

\* The matrix after the first n iterations of the loop of
\* transition_matrix: iteration i reads steps[i] and steps[i + 1].
RECURSIVE MatrixAfter(_, _)
MatrixAfter(steps, n) ==
    IF n <= 0 THEN EmptyDict
    ELSE LET matrix == MatrixAfter(steps, n - 1)
             src == steps[n].action_type
             dst == steps[n + 1].action_type
             row == Get(matrix, src, EmptyDict)
         IN  SetItem(matrix, src, SetItem(row, dst, Get(row, dst, 0) + 1))

\* The loop with matrix[dst][src] as the entry it increments.
transition_matrix_transposed(c) ==
    LET n == Len(c.steps)
        reversed == [i \in 1..n |-> c.steps[n + 1 - i]]
    IN  MatrixAfter(reversed, n - 1)

\* ExecutionContext.transition_matrix: range(len(steps) - 1) is empty for
\* zero steps and for one step.
transition_matrix(c) == MatrixAfter(c.steps, Len(c.steps) - 1)

RECURSIVE Matches(_, _, _)
Matches(plan, steps, n) ==
    IF n = 0 THEN 0
    ELSE Matches(plan, steps, n - 1)
         + (IF n - 1 < Len(plan)
               /\ steps[n].action_type = Get(plan[n], "action_type", None)
            THEN 1 ELSE 0)

\* The rate taken over the steps inside the plan only.
plan_adherence_rate_within_plan(c) ==
    IF Len(c.plan) = 0 \/ Len(c.steps) = 0 THEN <<0, 1>>
    ELSE <<Matches(c.plan, c.steps, Len(c.steps)),
           Min(Len(c.steps), Len(c.plan))>>

\* The rate taken over the length of the plan.
plan_adherence_rate_over_plan(c) ==
    IF Len(c.plan) = 0 \/ Len(c.steps) = 0 THEN <<0, 1>>
    ELSE <<Matches(c.plan, c.steps, Len(c.steps)), Len(c.plan)>>

\* ExecutionContext.plan_adherence_rate: the float num/den as <<num, den>>,
\* 0.0 as <<0, 1>>.
plan_adherence_rate(c) ==
    IF Len(c.plan) = 0 \/ Len(c.steps) = 0 THEN <<0, 1>>
    ELSE <<Matches(c.plan, c.steps, Len(c.steps)), Len(c.steps)>>

\* ------------------------------------------------------------------------
\* src/llm/claude.py
\* ------------------------------------------------------------------------

\* Texts.  A text is described by what a JSON parser finds in it:
\*   empty    the empty string
\*   json     the whole text is the JSON document val
\*   fenced   prose around a ``` fenced block holding the JSON object val
\*   braces   prose around one {...} span that is the JSON object val
\*   prose    non-empty text without any JSON
\* and a value that is not a str at all: None (JSON null) or a number.
TEmpty == [kind |-> "empty"]
TJson(j) == [kind |-> "json", val |-> j]
TFenced(d) == [kind |-> "fenced", val |-> JDict(d)]
TBraces(d) == [kind |-> "braces", val |-> JDict(d)]
TProse == [kind |-> "prose"]
TNone == [kind |-> "None"]
TNumber == [kind |-> "number"]

\* Lines of the CLI's stdout: blank, not JSON, or a JSON document.
LBlank == [line |-> "blank"]
LText == [line |-> "text"]
LJson(j) == [line |-> "json", val |-> j]

\* _parse_stream_events: the JSON documents of the non-blank lines, lines
\* that are not JSON skipped.
RECURSIVE _parse_stream_events(_)
_parse_stream_events(output) ==
    IF Len(output) = 0 THEN << >>
    ELSE IF Head(output).line = "json"
         THEN << Head(output).val >> \o _parse_stream_events(Tail(output))
         ELSE _parse_stream_events(Tail(output))

\* event.get(...) raises AttributeError on an event that is not a dict.
AllDicts(events) == \A i \in 1..Len(events) : events[i].t = "dict"

\* The content blocks of an event: event.get("message", {}).get("content", [])
ContentBlocks(event) == Get(Get(event.d, "message", EmptyDict), "content", << >>)

\* All content blocks of all events, in stream order.
RECURSIVE AllBlocks(_)
AllBlocks(events) ==
    IF Len(events) = 0 THEN << >>
    ELSE ContentBlocks(Head(events)) \o AllBlocks(Tail(events))

\* name.split("__")[-1] if "__" in name else name; a name is the sequence
\* of its "__"-separated segments.
ShortName(name) == IF Len(name) > 1 THEN << name[Len(name)] >> ELSE name

\* Position of tool_id among the keys of pending, 0 if absent.
PendingIndex(pending, tool_id) ==
    IF \E i \in 1..Len(pending) : pending[i].id = tool_id
    THEN CHOOSE i \in 1..Len(pending) : pending[i].id = tool_id
    ELSE 0

\* The loop body of _extract_tool_calls for one block; pending is the dict
\* in insertion order, as a sequence of [id, entry].
PendingStep(pending, block) ==
    LET btype == Get(block, "type", None)
    IN  IF btype = "tool_use"
        THEN LET tool_id == Get(block, "id", "")
                 name == Get(block, "name", << >>)
                 entry == [name |-> ShortName(name), full_name |-> name,
                           args |-> Get(block, "input", EmptyDict),
                           result |-> None]
                 i == PendingIndex(pending, tool_id)
             IN  IF i = 0 THEN Append(pending, [id |-> tool_id, entry |-> entry])
                 ELSE [pending EXCEPT ![i].entry = entry]
        ELSE IF btype = "tool_result"
        THEN LET tool_id == Get(block, "tool_use_id", "")
                 i == PendingIndex(pending, tool_id)
             IN  IF i = 0 THEN pending
                 ELSE [pending EXCEPT ![i].entry.result = Get(block, "content", "")]
        ELSE pending

RECURSIVE PendingAfter(_, _)
PendingAfter(blocks, n) ==
    IF n = 0 THEN << >>
    ELSE PendingStep(PendingAfter(blocks, n - 1), blocks[n])

\* _extract_tool_calls: list(pending.values())
_extract_tool_calls(events) ==
    IF ~AllDicts(events) THEN Raise
    ELSE LET pending == PendingAfter(AllBlocks(events), Len(AllBlocks(events)))
         IN  Ok([i \in 1..Len(pending) |-> pending[i].entry])

\* The events of a given type, in order.
EventsOfType(events, type) ==
    SelectSeq(events, LAMBDA e : Get(e.d, "type", None) = type)

\* The text blocks of the assistant events (claude.py 226-232).
RECURSIVE TextsOf(_)
TextsOf(blocks) ==
    IF Len(blocks) = 0 THEN << >>
    ELSE (IF Get(Head(blocks), "type", None) = "text"
          THEN << Get(Head(blocks), "text", TEmpty) >> ELSE << >>)
         \o TextsOf(Tail(blocks))

\* "\n".join(texts)
Join(texts) ==
    LET ne == SelectSeq(texts, LAMBDA t : t.kind # "empty")
        fenced == SelectSeq(ne, LAMBDA t : t.kind = "fenced")
        bearing == SelectSeq(ne, LAMBDA t :
                       t.kind = "braces" \/ (t.kind = "json" /\ t.val.t = "dict"))
    IN  IF Len(texts) = 0 THEN TEmpty
        ELSE IF Len(texts) = 1 THEN texts[1]
        ELSE IF Len(ne) = 0 THEN TProse
        ELSE IF Len(ne) = 1 /\ ne[1].kind = "json" THEN ne[1]
        ELSE IF Len(fenced) > 0 THEN fenced[1]
        ELSE IF Len(bearing) = 1 THEN TBraces(bearing[1].val.d)
        ELSE TProse

\* _extract_result_text
_extract_result_text(events) ==
    LET results == EventsOfType(events, "result")
    IN  IF Len(results) > 0 THEN Get(results[1].d, "result", TEmpty)
        ELSE Join(TextsOf(AllBlocks(EventsOfType(events, "assistant"))))

\* _extract_usage
_extract_usage(events) ==
    LET results == EventsOfType(events, "result")
    IN  IF Len(results) > 0
        THEN TokenUsage(Get(results[1].d, "total_cost_usd", 0),
                        Get(results[1].d, "duration_ms", 0))
        ELSE TokenUsage(0, 0)

\* _parse_json_response: None for a falsy text, the document when the whole
\* text parses, else the object of the first fenced block, else the object
\* of the {...} span, else None; json.loads raises TypeError on a number.
_parse_json_response(text) ==
    CASE text.kind \in {"empty", "None"} -> Ok(JNone)
      [] text.kind = "number" -> Raise
      [] text.kind \in {"json", "fenced", "braces"} -> Ok(text.val)
      [] text.kind = "prose" -> Ok(JNone)

\* LLMResponse(tool_input, usage, tool_calls, raw_content, session_id)
LLMResponse(tool_input, usage, tool_calls, raw_content, session_id) ==
    [tool_input |-> tool_input, usage |-> usage, tool_calls |-> tool_calls,
     raw_content |-> raw_content, session_id |-> session_id]

\* ClaudeProvider.call from the completed CLI process on (claude.py
\* 127-149): out is [returncode, stdout]; a non-zero return code is only
\* logged.  sid is self._session_id after lines 84-117.
call(out, sid) ==
    LET events == _parse_stream_events(out.stdout)
        tool_calls == _extract_tool_calls(events)
        result_text == _extract_result_text(events)
        usage == _extract_usage(events)
        parsed == _parse_json_response(result_text)
    IN  IF Raised(tool_calls) \/ Raised(parsed) THEN Raise
        ELSE Ok(LLMResponse(parsed.v, usage, tool_calls.v, result_text, sid))

\* ------------------------------------------------------------------------
\* Outputs of the external reasoning engine (the Claude CLI process)
\* ------------------------------------------------------------------------

\* One entry of a generated plan.
PlanEntry(action_type, description) ==
    [action_type |-> action_type, description |-> description]

\* Structured outputs answering the plan schema.
PlanObjects ==
    { [thinking |-> "t", plan |-> << >>],
      [thinking |-> "t", plan |-> << PlanEntry("compute", "c") >>],
      [thinking |-> "t",
       plan |-> << PlanEntry("analyze", "a"), PlanEntry("done", "d") >>],
      [thinking |-> "t",
       plan |-> << [description |-> "x"], [action_type |-> "compute"] >>] }

\* Structured outputs answering the response schema, complete or not.
StepObjects ==
    { [action_type |-> "analyze", thinking |-> "t", response |-> "r",
       is_done |-> FALSE],
      [action_type |-> "brainstorm", thinking |-> "t", response |-> "r",
       is_done |-> FALSE],
      [action_type |-> "done", thinking |-> "t", response |-> "r",
       is_done |-> TRUE],
      [action_type |-> "done", response |-> "r", is_done |-> FALSE],
      [action_type |-> "compute", thinking |-> "t", response |-> "r",
       is_done |-> TRUE],
      [response |-> "r", is_done |-> TRUE] }

\* The stream event that carries the final result text.
ResultEvent(text) ==
    JDict([type |-> "result", result |-> text, total_cost_usd |-> 2,
           duration_ms |-> 5])

\* A stream without a result event: the assistant calls a tool, the tool
\* result comes back, the assistant answers in a fenced block.
ToolStream ==
    << LJson(JDict([type |-> "system"])),
       LBlank,
       LJson(JDict([type |-> "assistant",
                    message |-> [content |-> <<
                        [type |-> "tool_use", id |-> "tu1",
                         name |-> <<"mcp", "tools", "calc">>,
                         input |-> [expression |-> "2+3"]] >>]])),
       LJson(JDict([type |-> "user",
                    message |-> [content |-> <<
                        [type |-> "tool_result", tool_use_id |-> "tu1",
                         content |-> "5"] >>]])),
       LJson(JDict([type |-> "assistant",
                    message |-> [content |-> <<
                        [type |-> "text",
                         text |-> TFenced([action_type |-> "compute",
                                           thinking |-> "t",
                                           response |-> "r",
                                           is_done |-> FALSE])] >>]])) >>

\* What one CLI invocation can come back with: [returncode, stdout].
CliOutputs ==
    { [returncode |-> 0, stdout |-> << LJson(ResultEvent(TJson(JDict(o)))) >>] :
        o \in PlanObjects \cup StepObjects }
    \cup
    { [returncode |-> 1, stdout |-> << >>],
      [returncode |-> 0, stdout |-> << LText >>],
      [returncode |-> 0, stdout |-> << LJson(JList(0)) >>],
      [returncode |-> 0, stdout |-> << LJson(ResultEvent(TJson(JList(2)))) >>],
      [returncode |-> 0, stdout |-> ToolStream] }

\* uuid.uuid4(): the n-th identifier drawn.
uuid4(n) == <<"uuid1", "uuid2", "uuid3", "uuid4">>[n]

\* ------------------------------------------------------------------------
\* src/core/engine.py
\* ------------------------------------------------------------------------

VARIABLES
    pc,             \* where Engine.run is: idle, setup_tools, plan, exec,
                    \* cleanup, returned, raised
    runs,           \* number of calls of Engine.run so far
    engine_mcp,     \* Engine._mcp_server_name (with _mcp_command), or None
    max_turns,      \* the max_turns argument of the run
    turn,           \* the loop variable of _run_loop
    ctx,            \* the ExecutionContext of the run
    tracker,        \* TokenTracker.stats of the run
    instructions,   \* the instructions text of the run's latest call
    response,       \* the outcome of the run's latest llm.call
    outcome,        \* how _run_loop ended: None, "return" or "raise"
    session_id,     \* ClaudeProvider._session_id
    uuids,          \* number of session identifiers drawn so far
    llm_mcp,        \* ClaudeProvider._mcp_server_name
    registered,     \* the servers registered with the CLI
    mcp_cmds,       \* the `claude mcp` commands the run has executed
    llm_calls,      \* number of CLI invocations ClaudeProvider.call made
                    \* in the run
    plan_reads,     \* the indices the run subscripted the plan with
    analytics,      \* what the latest reader of the context obtained, by method
    added,          \* the action types a test passed to ActionCatalog.add
    built,          \* the ActionCatalog.types dict of a catalog a test builds:
                    \* its mapping and the insertion order of its keys
    recorded,       \* the (action_type, usage) pairs a test passed to
                    \* TokenTracker.record
    stats_keys,     \* the insertion order of the keys of the TokenTracker.stats
                    \* dict a test builds
    stream,         \* the stream events a test passes to
                    \* _extract_tool_calls
    other,          \* the local state of a second, suspended call of
                    \* Engine.run and of that run's provider
    current         \* which of two interleaved runs is running: "A" or "B"

vars == << pc, runs, engine_mcp, max_turns, turn, ctx, tracker, instructions,
           response, outcome, session_id, uuids, llm_mcp, registered,
           mcp_cmds, llm_calls, plan_reads, analytics, added, built,
           recorded, stats_keys, stream, other, current >>

\* What only the tests of the catalog, of the tracker and of the stream
\* parsing use.
harness == << added, built, recorded, stats_keys, stream >>

\* An insertion-ordered dict without entries.
EmptyOrderedDict == [map |-> EmptyDict, keys |-> << >>]

\* The locals of a call of Engine.run that has not started, with the state
\* of its own provider.
NotStarted ==
    [pc |-> "idle", max_turns |-> 0, turn |-> 0,
     ctx |-> ExecutionContext("task"), tracker |-> EmptyDict,
     instructions |-> << >>, response |-> Raise, outcome |-> None,
     session_id |-> None, llm_mcp |-> None, mcp_cmds |-> << >>,
     llm_calls |-> 0, plan_reads |-> {}]

\* Engine(catalog): the catalog the engine was constructed with.
catalog == default_salary_catalog

\* The state before anything ran, with the program at position p.
Start(p) ==
    /\ pc = p
    /\ runs = 0
    /\ engine_mcp = None
    /\ max_turns = 0
    /\ turn = 0
    /\ ctx = ExecutionContext("task")
    /\ tracker = EmptyDict
    /\ instructions = << >>
    /\ response = Raise
    /\ outcome = None
    /\ session_id = None
    /\ uuids = 0
    /\ llm_mcp = None
    /\ registered = {}
    /\ mcp_cmds = << >>
    /\ llm_calls = 0
    /\ plan_reads = {}
    /\ analytics = EmptyDict
    /\ added = << >>
    /\ built = EmptyOrderedDict
    /\ recorded = << >>
    /\ stats_keys = << >>
    /\ stream = << >>
    /\ other = NotStarted
    /\ current = "A"

\* An engine was constructed; no run has started.
Init == Start("idle")

\* Engine.register_mcp_server
register_mcp_server ==
    /\ pc = "idle"
    /\ engine_mcp = None
    /\ engine_mcp' = "tools"
    /\ UNCHANGED << harness, other, current,
                    pc, runs, mcp_cmds, max_turns, turn, ctx, tracker,
                    instructions, response,
                    outcome, session_id, uuids, llm_mcp, registered,
                    llm_calls, plan_reads, analytics >>

\* ClaudeProvider.reset_session left out of Engine.run.
reset_session_skipped == session_id

\* ClaudeProvider.reset_session: the value _session_id is given.
reset_session == None

\* Engine.run up to its first await (engine.py 53-59): a new tracker, the
\* session reset, then setup_tools if a server is registered, else the loop.
\* Everything the model records about one run starts afresh.
RunStart(mt) ==
    /\ runs' = runs + 1
    /\ max_turns' = mt
    /\ tracker' = EmptyDict
    /\ session_id' = reset_session
    /\ ctx' = ExecutionContext("task")
    /\ turn' = 0
    /\ instructions' = << >>
    /\ response' = Raise
    /\ outcome' = None
    /\ mcp_cmds' = << >>
    /\ llm_calls' = 0
    /\ plan_reads' = {}
    /\ analytics' = EmptyDict
    /\ pc' = IF engine_mcp # None THEN "setup_tools" ELSE "plan"
    /\ UNCHANGED << harness, other, current,
                    engine_mcp, uuids, llm_mcp, registered >>

\* The first call of Engine.run on a new engine.
run(mt) ==
    /\ pc = "idle"
    /\ RunStart(mt)

\* A further call of Engine.run on the same engine and provider, after the
\* previous run has returned or raised.
rerun(mt) ==
    /\ pc \in {"returned", "raised"}
    /\ runs < MaxRuns
    /\ RunStart(mt)

\* A `claude mcp` command and its return code.
McpCmd(cmd, returncode) == [cmd |-> cmd, returncode |-> returncode]

\* ClaudeProvider.setup_tools: the name is kept whatever the return code of
\* `claude mcp add`; a failure is only logged.
setup_tools(returncode) ==
    /\ pc = "setup_tools"
    /\ llm_mcp' = engine_mcp
    /\ registered' = IF returncode = 0 THEN registered \cup {engine_mcp}
                     ELSE registered
    /\ mcp_cmds' = Append(mcp_cmds, McpCmd("add", returncode))
    /\ pc' = "plan"
    /\ UNCHANGED << harness, other, current,
                    runs, engine_mcp, max_turns, turn, ctx, tracker,
                    instructions, response, outcome, session_id, uuids,
                    llm_calls, plan_reads, analytics >>

\* ClaudeProvider.setup_tools when the subprocess cannot be started
\* (claude.py 52 raises): the name is already kept, nothing is registered,
\* and Engine.run lets the error propagate from outside its try block
\* (engine.py 58-59), before _run_loop has started.
setup_tools_raises ==
    /\ pc = "setup_tools"
    /\ llm_mcp' = engine_mcp
    /\ pc' = "raised"
    /\ UNCHANGED << harness, other, current,
                    runs, engine_mcp, max_turns, turn, ctx, tracker,
                    instructions, response, outcome, session_id, uuids,
                    registered, mcp_cmds, llm_calls, plan_reads, analytics >>

\* The session bookkeeping of ClaudeProvider.call (claude.py 84-117): the
\* first call of a session draws an identifier, later calls resume it.
SessionAfterCall == IF session_id = None THEN uuid4(uuids + 1) ELSE session_id

UuidsAfterCall == IF session_id = None THEN uuids + 1 ELSE uuids

\* `response.tool_input or {}`
OrEmptyDict(tool_input) ==
    IF Truthy(tool_input) THEN tool_input ELSE JDict(EmptyDict)

\* The loop bound taken inclusively, as range(1, max_turns + 1).
HasNextTurn_inclusive(t, mt) == t + 1 <= mt

\* range(1, max_turns) has a value after `turn`.
HasNextTurn(t, mt) == t + 1 < mt

\* The loop left without the cost snapshot.
LoopExit_no_snapshot(c, stats) == c

\* The loop is left: the cost snapshot is attached and _run_loop returns
\* (engine.py 147-149); run's finally block is next.
LoopExit(c, stats) == [c EXCEPT !.cost_stats = stats]

\* Phase 1 of _run_loop (engine.py 74-87), then the loop header.
PlanCall(out) ==
    /\ pc = "plan"
    /\ LET r == call(out, SessionAfterCall)
           parsed_plan == OrEmptyDict(r.v.tool_input)
           plan == Get(parsed_plan.d, "plan", << >>)
           stats == record(tracker, "plan", r.v.usage)
           c1 == [ctx EXCEPT !.plan = plan, !.turn_count = 1]
       IN  /\ instructions' = build_plan_prompt
           /\ session_id' = SessionAfterCall
           /\ uuids' = UuidsAfterCall
           /\ llm_calls' = llm_calls + 1
           /\ response' = r
           /\ IF Raised(r) \/ parsed_plan.t # "dict"
              THEN /\ pc' = "cleanup"
                   /\ outcome' = "raise"
                   /\ UNCHANGED << ctx, tracker, turn >>
              ELSE /\ tracker' = stats
                   /\ IF HasNextTurn(0, max_turns)
                      THEN /\ ctx' = c1
                           /\ turn' = 1
                           /\ pc' = "exec"
                           /\ UNCHANGED outcome
                      ELSE /\ ctx' = LoopExit(c1, stats)
                           /\ pc' = "cleanup"
                           /\ outcome' = "return"
                           /\ UNCHANGED turn
    /\ UNCHANGED << harness, other, current,
                    runs, engine_mcp, max_turns, llm_mcp, registered,
                    mcp_cmds, plan_reads, analytics >>

\* The guard of the plan lookup and of the cursor advance (engine.py 120,
\* 124): `ctx.plan and ctx.plan_cursor < len(ctx.plan)`.
CursorInPlan(plan, plan_cursor) == Len(plan) > 0 /\ plan_cursor < Len(plan)

\* The declared type read without the "unknown" default.
DeclaredType_no_default(parsed) == Get(parsed, "action_type", None)

\* The declared type accepted only when the catalog knows it.
DeclaredType_catalog_only(parsed) ==
    IF Get(parsed, "action_type", "unknown") \in DOMAIN catalog
    THEN Get(parsed, "action_type", "unknown") ELSE "unknown"

\* `parsed.get("action_type", "unknown")` (engine.py 109)
DeclaredType(parsed) == Get(parsed, "action_type", "unknown")

\* The planned type looked up at the clamped index the advisor uses.
PlannedType_clamped(plan, plan_cursor) ==
    IF Len(plan) > 0
    THEN Ok(Get(plan[Min(plan_cursor, Len(plan) - 1) + 1], "action_type", None))
    ELSE Ok(None)

\* The planned type read after the cursor advance instead of before it.
PlannedType_after_advance(plan, plan_cursor) ==
    IF CursorInPlan(plan, plan_cursor + 1)
    THEN Ok(Get(plan[plan_cursor + 2], "action_type", None))
    ELSE Ok(None)

\* The planned type of a turn (engine.py 119-121).
PlannedType(plan, plan_cursor) ==
    IF CursorInPlan(plan, plan_cursor)
    THEN LET entry == PlanAt(plan, plan_cursor)
         IN  IF Raised(entry) THEN Raise
             ELSE Ok(Get(entry.v, "action_type", None))
    ELSE Ok(None)

\* The cursor advanced on every turn of a run with a plan.
NextCursor_unguarded(plan, plan_cursor) ==
    IF Len(plan) > 0 THEN plan_cursor + 1 ELSE plan_cursor

\* The cursor kept on the last plan entry, as the advisor's index is.
NextCursor_stops_at_last(plan, plan_cursor) ==
    IF Len(plan) > 0 /\ plan_cursor < Len(plan) - 1 THEN plan_cursor + 1
    ELSE plan_cursor

\* The plan cursor after a turn (engine.py 124-125).
NextCursor(plan, plan_cursor) ==
    IF CursorInPlan(plan, plan_cursor) THEN plan_cursor + 1 ELSE plan_cursor

\* The completion test without the terminal type name.
IsDone_flag_only(parsed, action_type) == Get(parsed, "is_done", FALSE)

\* `parsed.get("is_done", False) or action_type == "done"` (engine.py 113)
IsDone(parsed, action_type) ==
    Get(parsed, "is_done", FALSE) \/ action_type = "done"

\* The recommendation always built with the placeholder last_type.
TurnInstructions_placeholder(t, c) ==
    IF t = 1 /\ Len(c.steps) = 0 THEN Ok(build_system_prompt)
    ELSE build_recommendation(catalog, "plan", c.steps, c.plan, c.plan_cursor)

\* The instructions of a turn (engine.py 94-102).
TurnInstructions(t, c) ==
    IF t = 1 /\ Len(c.steps) = 0 THEN Ok(build_system_prompt)
    ELSE build_recommendation(catalog,
             IF Len(c.steps) > 0 THEN c.steps[Len(c.steps)].action_type
                                 ELSE "plan",
             c.steps, c.plan, c.plan_cursor)

\* The plan indices the instructions of a turn subscript.
AdvisorReads(t, c) ==
    IF (t = 1 /\ Len(c.steps) = 0) \/ Len(c.plan) = 0 THEN {}
    ELSE { current_idx(c.plan, c.plan_cursor) }

\* The plan index the engine subscripts on a turn.
EngineReads(c) ==
    IF CursorInPlan(c.plan, c.plan_cursor) THEN { c.plan_cursor } ELSE {}

\* The cost of a turn keyed by the type the plan expected, when there is one.
CostKey_planned(action_type, planned_type) ==
    IF planned_type.ok /\ planned_type.v # None THEN planned_type.v
    ELSE action_type

\* The key of `tracker.record(action_type, response.usage)` (engine.py 116).
CostKey(action_type, planned_type) == action_type

\* The turn counter left as the turn found it.
TurnCount_stale(t) == t

\* `ctx.turn_count = turn + 1` (engine.py 91)
TurnCount(t) == t + 1

\* The new step written over the last recorded one.
AppendStep_overwrite(steps, step) ==
    IF Len(steps) = 0 THEN << step >>
    ELSE [steps EXCEPT ![Len(steps)] = step]

\* `ctx.steps.append(step)` (engine.py 128)
AppendStep(steps, step) == Append(steps, step)

\* One iteration of the loop of _run_loop (engine.py 90-145), then either
\* the next iteration or the exit from the loop.
ExecTurn(out) ==
    /\ pc = "exec"
    /\ LET c0 == [ctx EXCEPT !.turn_count = TurnCount(turn)]
           instr == TurnInstructions(turn, c0)
           r == call(out, SessionAfterCall)
           parsed == OrEmptyDict(r.v.tool_input)
           action_type == DeclaredType(parsed.d)
           thinking == Get(parsed.d, "thinking", "")
           response_text == Get(parsed.d, "response", "")
           is_done == IsDone(parsed.d, action_type)
           planned_type == PlannedType(c0.plan, c0.plan_cursor)
           stats == record(tracker, CostKey(action_type, planned_type),
                           r.v.usage)
           cursor == NextCursor(c0.plan, c0.plan_cursor)
           step == ActionStep(action_type, thinking, response_text,
                              r.v.tool_calls, planned_type.v)
           c1 == [c0 EXCEPT !.plan_cursor = cursor,
                            !.steps = AppendStep(c0.steps, step)]
       IN  IF Raised(instr)
           THEN /\ pc' = "cleanup"
                /\ outcome' = "raise"
                /\ ctx' = c0
                /\ plan_reads' = plan_reads \cup AdvisorReads(turn, c0)
                /\ UNCHANGED << tracker, turn, instructions, response,
                                session_id, uuids, llm_calls >>
           ELSE /\ instructions' = instr.v
                /\ session_id' = SessionAfterCall
                /\ uuids' = UuidsAfterCall
                /\ llm_calls' = llm_calls + 1
                /\ response' = r
                /\ IF Raised(r) \/ parsed.t # "dict"
                   THEN /\ pc' = "cleanup"
                        /\ outcome' = "raise"
                        /\ ctx' = c0
                        /\ plan_reads' = plan_reads \cup AdvisorReads(turn, c0)
                        /\ UNCHANGED << tracker, turn >>
                   ELSE IF Raised(planned_type)
                   THEN /\ pc' = "cleanup"
                        /\ outcome' = "raise"
                        /\ ctx' = c0
                        /\ tracker' = stats
                        /\ plan_reads' = plan_reads \cup AdvisorReads(turn, c0)
                                             \cup EngineReads(c0)
                        /\ UNCHANGED turn
                   ELSE /\ tracker' = stats
                        /\ plan_reads' = plan_reads \cup AdvisorReads(turn, c0)
                                             \cup EngineReads(c0)
                        /\ IF ~is_done /\ HasNextTurn(turn, max_turns)
                           THEN /\ ctx' = c1
                                /\ turn' = turn + 1
                                /\ UNCHANGED << pc, outcome >>
                           ELSE /\ ctx' = LoopExit(c1, stats)
                                /\ pc' = "cleanup"
                                /\ outcome' = "return"
                                /\ UNCHANGED turn
    /\ UNCHANGED << harness, other, current,
                    runs, engine_mcp, max_turns, llm_mcp, registered,
                    mcp_cmds, analytics >>

\* cleanup_tools called after the loop instead of in a finally block: an
\* error leaves run without the call.
cleanup_tools_after_loop ==
    /\ pc = "cleanup"
    /\ registered' = IF llm_mcp # None /\ outcome = "return"
                     THEN registered \ {llm_mcp} ELSE registered
    /\ mcp_cmds' = IF llm_mcp # None /\ outcome = "return"
                   THEN Append(mcp_cmds, McpCmd("remove", 0)) ELSE mcp_cmds
    /\ llm_mcp' = IF outcome = "return" THEN None ELSE llm_mcp
    /\ pc' = IF outcome = "return" THEN "returned" ELSE "raised"
    /\ UNCHANGED << harness, other, current,
                    runs, engine_mcp, max_turns, turn, ctx, tracker,
                    instructions, response, outcome, session_id, uuids,
                    llm_calls, plan_reads, analytics >>

\* ClaudeProvider.cleanup_tools in run's finally block (engine.py 63-64),
\* then run returns the context or lets the error propagate.
cleanup_tools ==
    /\ pc = "cleanup"
    /\ registered' = IF llm_mcp # None THEN registered \ {llm_mcp}
                     ELSE registered
    /\ mcp_cmds' = IF llm_mcp # None THEN Append(mcp_cmds, McpCmd("remove", 0))
                   ELSE mcp_cmds
    /\ llm_mcp' = None
    /\ pc' = IF outcome = "return" THEN "returned" ELSE "raised"
    /\ UNCHANGED << harness, other, current,
                    runs, engine_mcp, max_turns, turn, ctx, tracker,
                    instructions, response, outcome, session_id, uuids,
                    llm_calls, plan_reads, analytics >>

\* The methods of ExecutionContext (context.py 45-71).
ExecutionContextMethods ==
    { "action_type_counts", "transition_matrix", "plan_adherence_rate" }

\* ctx.<name>(): AttributeError for a name the class does not define.
CallMethod(c, name) ==
    IF name \notin ExecutionContextMethods THEN Raise
    ELSE IF name = "plan_adherence_rate" THEN Ok(plan_adherence_rate(c))
    ELSE IF name = "action_type_counts" THEN Ok(action_type_counts(c))
    ELSE Ok(transition_matrix(c))

\* A reader of a context (the report of examples/salary_analysis.py, the
\* assertions of the tests): the three analytics and adherence_rate().
ReadAnalytics ==
    /\ pc \in {"returned", "built"}
    /\ analytics' = [action_type_counts |-> CallMethod(ctx, "action_type_counts"),
                     transition_matrix |-> CallMethod(ctx, "transition_matrix"),
                     plan_adherence_rate |-> CallMethod(ctx, "plan_adherence_rate"),
                     adherence_rate |-> CallMethod(ctx, "adherence_rate")]
    /\ UNCHANGED << harness, other, current,
                    pc, runs, mcp_cmds, engine_mcp, max_turns, turn, ctx,
                    tracker,
                    instructions, response, outcome, session_id, uuids,
                    llm_mcp, registered, llm_calls, plan_reads >>

Next ==
    \/ register_mcp_server
    \/ \E mt \in 0..MaxTurnsBound : run(mt)
    \/ \E returncode \in {0, 1} : setup_tools(returncode)
    \/ setup_tools_raises
    \/ \E out \in CliOutputs : PlanCall(out)
    \/ \E out \in CliOutputs : ExecTurn(out)
    \/ cleanup_tools
    \/ ReadAnalytics

Spec == Init /\ [][Next]_vars

\* The asyncio event loop resumes a coroutine whose awaited subprocess has
\* completed, so a run in progress always takes its next step.
FairSpec == Spec /\ WF_vars(Next)

\* A run over a few outputs only: two plans, and steps that declare
\* "plan", "analyze" and "done".
LeanObjects ==
    { [thinking |-> "t", plan |-> << PlanEntry("compute", "c") >>],
      [thinking |-> "t",
       plan |-> << PlanEntry("analyze", "a"), PlanEntry("done", "d") >>],
      [action_type |-> "plan", thinking |-> "t", response |-> "r",
       is_done |-> FALSE],
      [action_type |-> "analyze", thinking |-> "t", response |-> "r",
       is_done |-> FALSE],
      [action_type |-> "done", thinking |-> "t", response |-> "r",
       is_done |-> TRUE] }

LeanOutputs ==
    { [returncode |-> 0, stdout |-> << LJson(ResultEvent(TJson(JDict(o)))) >>] :
        o \in LeanObjects }
    \cup { [returncode |-> 1, stdout |-> << >>] }

NextLean ==
    \/ \E mt \in 0..MaxTurnsBound : run(mt)
    \/ \E out \in LeanOutputs : PlanCall(out)
    \/ \E out \in LeanOutputs : ExecTurn(out)
    \/ cleanup_tools
    \/ ReadAnalytics

SpecLean == Init /\ [][NextLean]_vars

\* Several runs, one after the other, with one engine and one provider.
NextRuns ==
    \/ Next
    \/ \E mt \in 0..MaxTurnsBound : rerun(mt)

SpecRuns == Init /\ [][NextRuns]_vars

\* ------------------------------------------------------------------------
\* Contexts built directly, as tests/test_core.py builds them
\* ------------------------------------------------------------------------

\* The plans of TestExecutionContext (test_core.py 247-251, 261-266).
TestPlans ==
    { << PlanEntry("analyze", "understand"), PlanEntry("compute", "calculate"),
         PlanEntry("done", "finish") >>,
      << PlanEntry("analyze", "understand"), PlanEntry("compute", "calculate"),
         PlanEntry("verify", "check"), PlanEntry("done", "finish") >> }

\* The action types of the steps the tests build.
TestTypes == { "analyze", "compute", "done" }

\* ExecutionContext(task="test")
InitCtx == Start("built")

\* ctx.plan = [...]
SetPlan(plan) ==
    /\ pc = "built"
    /\ ctx.plan = << >>
    /\ ctx' = [ctx EXCEPT !.plan = plan]
    /\ UNCHANGED << harness, other, current,
                    pc, runs, mcp_cmds, engine_mcp, max_turns, turn, tracker,
                    instructions,
                    response, outcome, session_id, uuids, llm_mcp,
                    registered, llm_calls, plan_reads, analytics >>

\* ctx.steps grows by ActionStep(action_type=t)
AddStep(t) ==
    /\ pc = "built"
    /\ Len(ctx.steps) < MaxSteps
    /\ ctx' = [ctx EXCEPT !.steps = Append(@, ActionStep(t, "", "", << >>, None))]
    /\ UNCHANGED << harness, other, current,
                    pc, runs, mcp_cmds, engine_mcp, max_turns, turn, tracker,
                    instructions,
                    response, outcome, session_id, uuids, llm_mcp,
                    registered, llm_calls, plan_reads, analytics >>

NextCtx ==
    \/ \E plan \in TestPlans : SetPlan(plan)
    \/ \E t \in TestTypes : AddStep(t)
    \/ ReadAnalytics

SpecCtx == InitCtx /\ [][NextCtx]_vars

\* ------------------------------------------------------------------------
\* build_recommendation called directly, as tests/test_core.py calls it
\* ------------------------------------------------------------------------

\* Plan arguments: the plans of the tests, a plan whose last entry is not
\* "done", and a plan with a "done" entry before its last entry.
AdvisorPlans ==
    TestPlans \cup
    { << PlanEntry("compute", "calculate"), PlanEntry("done", "finish") >>,
      << PlanEntry("compute", "calculate") >>,
      << PlanEntry("analyze", "understand"), PlanEntry("done", "finish"),
         PlanEntry("compute", "calculate"), PlanEntry("done", "finish") >> }

\* plan_cursor = k
SetCursor(k) ==
    /\ pc = "built"
    /\ ctx.plan_cursor = 0
    /\ ctx' = [ctx EXCEPT !.plan_cursor = k]
    /\ UNCHANGED << harness, other, current,
                    pc, runs, mcp_cmds, engine_mcp, max_turns, turn, tracker,
                    instructions, response, outcome, session_id, uuids,
                    llm_mcp, registered, llm_calls, plan_reads, analytics >>

\* rec = advisor.build_recommendation(last_type, history, plan, plan_cursor)
\* with the history, plan and cursor built so far.
Recommend(last_type) ==
    /\ pc = "built"
    /\ LET rec == build_recommendation(catalog, last_type, ctx.steps,
                                       ctx.plan, ctx.plan_cursor)
       IN  /\ rec.ok
           /\ instructions' = rec.v
    /\ pc' = "advised"
    /\ UNCHANGED << harness, other, current,
                    runs, mcp_cmds, engine_mcp, max_turns, turn, ctx, tracker,
                    response, outcome, session_id, uuids, llm_mcp,
                    registered, llm_calls, plan_reads, analytics >>

NextAdvisor ==
    \/ \E plan \in AdvisorPlans : SetPlan(plan)
    \/ \E k \in 1..MaxCursor : SetCursor(k)
    \/ \E t \in TestTypes : AddStep(t)
    \/ \E last_type \in TestTypes : Recommend(last_type)

SpecAdvisor == InitCtx /\ [][NextAdvisor]_vars

\* ------------------------------------------------------------------------
\* Two calls of Engine.run on one engine, interleaved at their awaits
\* ------------------------------------------------------------------------

\* The provider of the other run.
OtherProvider(p) == IF p = "A" THEN "B" ELSE "A"

\* What the CLI of each provider charges for a call.
ProviderCost(p) == IF p = "A" THEN 1 ELSE 2

\* The action type the steps of each provider's replies declare.
ProviderType(p) == IF p = "A" THEN "analyze" ELSE "compute"

\* The response text of the k-th step a provider answers.
ProviderText(p, k) ==
    IF p = "A" THEN << "A1", "A2", "A3", "A4" >>[k]
    ELSE << "B1", "B2", "B3", "B4" >>[k]

\* The plan a provider answers the planning call with.
ProviderPlan(p) ==
    << PlanEntry(ProviderType(p), p), PlanEntry("done", p) >>

\* The n-th reply of provider p in a run: the plan, then steps that carry
\* the provider's own texts; the step number MaxConcSteps says it is done.
ProviderReply(p, n) ==
    LET o == IF n = 1
             THEN [thinking |-> "t", plan |-> ProviderPlan(p)]
             ELSE [action_type |-> ProviderType(p), thinking |-> "t",
                   response |-> ProviderText(p, n - 1),
                   is_done |-> (n - 1 >= MaxConcSteps)]
    IN  [returncode |-> 0,
         stdout |-> << LJson(JDict([type |-> "result",
                                    result |-> TJson(JDict(o)),
                                    total_cost_usd |-> ProviderCost(p),
                                    duration_ms |-> 5])) >>]

\* The asyncio event loop suspends the running call of Engine.run at an
\* await and resumes the other one. The locals of the call (ctx, tracker,
\* advisor, messages, the loop variable) and the provider it was given stay
\* with the suspended coroutine; the engine's attributes, the CLI's server
\* registry and the uuid source are the same for both. In this variant ctx
\* is an attribute of the engine, shared by the two calls.
Switch_shared_ctx ==
    /\ other' = [pc |-> pc, max_turns |-> max_turns, turn |-> turn,
                 ctx |-> other.ctx, tracker |-> tracker,
                 instructions |-> instructions, response |-> response,
                 outcome |-> outcome, session_id |-> session_id,
                 llm_mcp |-> llm_mcp, mcp_cmds |-> mcp_cmds,
                 llm_calls |-> llm_calls, plan_reads |-> plan_reads]
    /\ pc' = other.pc
    /\ max_turns' = other.max_turns
    /\ turn' = other.turn
    /\ ctx' = ctx
    /\ tracker' = other.tracker
    /\ instructions' = other.instructions
    /\ response' = other.response
    /\ outcome' = other.outcome
    /\ session_id' = other.session_id
    /\ llm_mcp' = other.llm_mcp
    /\ mcp_cmds' = other.mcp_cmds
    /\ llm_calls' = other.llm_calls
    /\ plan_reads' = other.plan_reads
    /\ current' = OtherProvider(current)
    /\ UNCHANGED << harness, runs, engine_mcp, registered, uuids, analytics >>

\* The asyncio event loop suspends the running call of Engine.run at an
\* await and resumes the other one. The locals of the call (ctx, tracker,
\* advisor, messages, the loop variable) and the provider it was given stay
\* with the suspended coroutine; the engine's attributes, the CLI's server
\* registry and the uuid source are the same for both.
Switch ==
    /\ other' = [pc |-> pc, max_turns |-> max_turns, turn |-> turn,
                 ctx |-> ctx, tracker |-> tracker,
                 instructions |-> instructions, response |-> response,
                 outcome |-> outcome, session_id |-> session_id,
                 llm_mcp |-> llm_mcp, mcp_cmds |-> mcp_cmds,
                 llm_calls |-> llm_calls, plan_reads |-> plan_reads]
    /\ pc' = other.pc
    /\ max_turns' = other.max_turns
    /\ turn' = other.turn
    /\ ctx' = other.ctx
    /\ tracker' = other.tracker
    /\ instructions' = other.instructions
    /\ response' = other.response
    /\ outcome' = other.outcome
    /\ session_id' = other.session_id
    /\ llm_mcp' = other.llm_mcp
    /\ mcp_cmds' = other.mcp_cmds
    /\ llm_calls' = other.llm_calls
    /\ plan_reads' = other.plan_reads
    /\ current' = OtherProvider(current)
    /\ UNCHANGED << harness, runs, engine_mcp, registered, uuids, analytics >>

NextConc ==
    \/ \E mt \in 0..(MaxConcSteps + 1) : run(mt)
    \/ PlanCall(ProviderReply(current, llm_calls + 1))
    \/ ExecTurn(ProviderReply(current, llm_calls + 1))
    \/ cleanup_tools
    \/ Switch

SpecConc == Init /\ [][NextConc]_vars

\* ------------------------------------------------------------------------
\* _extract_tool_calls called directly, as tests/test_core.py calls it
\* ------------------------------------------------------------------------

\* The tool_use ids of the streams.
TestToolIds == { "t1", "t2" }

\* The content blocks of the streams: tool_use blocks of two tools, one
\* with the MCP prefix, tool_result blocks, and a text block.
TestBlocks ==
    { [type |-> "tool_use", id |-> i, name |-> n,
       input |-> [expression |-> "2+3"]] :
        i \in TestToolIds, n \in { << "mcp", "server", "calc" >>, << "stats" >> } }
    \cup { [type |-> "tool_result", tool_use_id |-> i, content |-> c] :
             i \in TestToolIds, c \in { "5", "6" } }
    \cup { [type |-> "text", text |-> "hello"] }

\* The events of the streams: an event without a message, and messages
\* of one content block.
TestEvents ==
    { JDict([type |-> "system"]) }
    \cup { JDict([type |-> "assistant", message |-> [content |-> << b >>]]) :
             b \in TestBlocks }

InitExtract == Start("stream")

\* The next event of the stream the test passes.
Emit(event) ==
    /\ pc = "stream"
    /\ Len(stream) < MaxEvents
    /\ stream' = Append(stream, event)
    /\ UNCHANGED << pc, runs, engine_mcp, max_turns, turn, ctx, tracker,
                    instructions, response, outcome, session_id, uuids,
                    llm_mcp, registered, mcp_cmds, llm_calls, plan_reads,
                    analytics, added, built, recorded, stats_keys, other,
                    current >>

\* calls = _extract_tool_calls(events)
Extract ==
    /\ pc = "stream"
    /\ analytics' = [_extract_tool_calls |-> _extract_tool_calls(stream)]
    /\ pc' = "extracted"
    /\ UNCHANGED << runs, engine_mcp, max_turns, turn, ctx, tracker,
                    instructions, response, outcome, session_id, uuids,
                    llm_mcp, registered, mcp_cmds, llm_calls, plan_reads,
                    harness, other, current >>

NextExtract ==
    \/ \E event \in TestEvents : Emit(event)
    \/ Extract

SpecExtract == InitExtract /\ [][NextExtract]_vars

\* The methods of Engine (engine.py 19-149).
EngineMethods == { "register_mcp_server", "run", "_run_loop" }

\* engine.<name>(...): AttributeError for a name the class does not define.
CallEngine(name) == IF name \notin EngineMethods THEN Raise ELSE Ok(None)

\* build_engine of examples/salary_analysis.py and _make_salary_engine of
\* tests/test_integration.py: after Engine(...), the first statement on the
\* engine is engine.register_tool("calc", calc, "..."). The
\* AttributeError ends the builder before a run is started.
build_engine ==
    /\ pc = "idle"
    /\ engine_mcp = None
    /\ analytics' = [register_tool |-> CallEngine("register_tool")]
    /\ pc' = IF CallEngine("register_tool").ok THEN "idle" ELSE "build_failed"
    /\ UNCHANGED << harness, other, current,
                    runs, mcp_cmds, engine_mcp, max_turns, turn, ctx,
                    tracker, instructions, response, outcome, session_id,
                    uuids, llm_mcp, registered, llm_calls, plan_reads >>

NextTools ==
    \/ build_engine
    \/ NextLean

SpecTools == Init /\ [][NextTools]_vars

\* ------------------------------------------------------------------------
\* A catalog built directly, as tests/test_core.py builds it
\* ------------------------------------------------------------------------

\* The action types the tests add: two names, one of them with two
\* different definitions.
TestActionTypes ==
    { ActionType("a", << >>, << >>),
      ActionType("a", << "b" >>, << "calc" >>),
      ActionType("b", << "a" >>, << >>) }

\* The names the tests look up.
LookupNames == { "a", "b", "nonexistent" }

\* ActionCatalog()
InitCatalog == Start("catalog")

\* catalog.add(at)
Add(at) ==
    /\ pc = "catalog"
    /\ Len(added) < MaxAdds
    /\ built' = [map |-> add(built.map, at),
                 keys |-> KeysAfterAdd(built.keys, built.map, at)]
    /\ added' = Append(added, at)
    /\ UNCHANGED << pc, runs, engine_mcp, max_turns, turn, ctx, tracker,
                    instructions, response, outcome, session_id, uuids,
                    llm_mcp, registered, mcp_cmds, llm_calls, plan_reads,
                    analytics, recorded, stats_keys, stream, other, current >>

\* catalog.get(name), catalog.get_suggestions(name), catalog.type_names()
Lookup(name) ==
    /\ pc = "catalog"
    /\ analytics' = [name |-> name,
                     get |-> Ok(get(built.map, name)),
                     get_suggestions |-> Ok(get_suggestions(built.map, name)),
                     type_names |-> Ok(type_names(built.keys))]
    /\ UNCHANGED << pc, runs, engine_mcp, max_turns, turn, ctx, tracker,
                    instructions, response, outcome, session_id, uuids,
                    llm_mcp, registered, mcp_cmds, llm_calls, plan_reads,
                    harness, other, current >>

NextCatalog ==
    \/ \E at \in TestActionTypes : Add(at)
    \/ \E name \in LookupNames : Lookup(name)

SpecCatalog == InitCatalog /\ [][NextCatalog]_vars

\* ------------------------------------------------------------------------
\* A tracker used directly, as tests/test_core.py uses it
\* ------------------------------------------------------------------------

\* The action types the tests record under.
TrackerTypes == { "compute", "verify" }

\* The usages recorded: a small and a large cost.
TestUsages == { TokenUsage(1, 100), TokenUsage(8, 200) }

\* TokenTracker()
InitTracker == Start("tracker")

\* tracker.record(action_type, usage)
Record(action_type, usage) ==
    /\ pc = "tracker"
    /\ Len(recorded) < MaxRecords
    /\ tracker' = record(tracker, action_type, usage)
    /\ stats_keys' = KeysAfterRecord(stats_keys, tracker, action_type)
    /\ recorded' = Append(recorded, << action_type, usage >>)
    /\ UNCHANGED << pc, runs, engine_mcp, max_turns, turn, ctx, instructions,
                    response, outcome, session_id, uuids, llm_mcp,
                    registered, mcp_cmds, llm_calls, plan_reads, analytics,
                    added, built, stream, other, current >>

\* report = tracker.report()
Report ==
    /\ pc = "tracker"
    /\ analytics' = [report |-> report(tracker, stats_keys)]
    /\ UNCHANGED << pc, runs, engine_mcp, max_turns, turn, ctx, tracker,
                    instructions, response, outcome, session_id, uuids,
                    llm_mcp, registered, mcp_cmds, llm_calls, plan_reads,
                    harness, other, current >>

NextTracker ==
    \/ \E action_type \in TrackerTypes, usage \in TestUsages :
          Record(action_type, usage)
    \/ Report

SpecTracker == InitTracker /\ [][NextTracker]_vars

\* ------------------------------------------------------------------------
\* Properties
\* ------------------------------------------------------------------------

\* The latest execution turn obtained a structured output the engine can
\* read: the call returned and `tool_input or {}` is a mapping.
TurnAnswered ==
    /\ llm_calls >= 2
    /\ response.ok
    /\ OrEmptyDict(response.v.tool_input).t = "dict"

\* That mapping.
Answer == OrEmptyDict(response.v.tool_input).d

\* The most recently recorded step.
LastStep == ctx.steps[Len(ctx.steps)]

\* The latest turn carried a completion signal.
Signalled ==
    /\ TurnAnswered
    /\ (Get(Answer, "is_done", FALSE)
        \/ Get(Answer, "action_type", "unknown") = "done")

\* C1: a turn whose output has is_done true or declares the type "done" is
\* the last turn of the run: its step is recorded and the loop is left, no
\* further call is made and no further step appended, and so only the last
\* step of a context can have the type "done".
C1_DoneTurnIsLast ==
    /\ [](Signalled =>
            /\ Len(ctx.steps) = llm_calls - 1
            /\ LastStep.action_type = Get(Answer, "action_type", "unknown")
            /\ pc \in {"cleanup", "returned"})
    /\ [][Signalled => (llm_calls' = llm_calls /\ ctx'.steps = ctx.steps)]_vars
    /\ [](\A i \in 1..(Len(ctx.steps) - 1) : ctx.steps[i].action_type # "done")

\* A run returned after a "done" turn although turns were left.
C1_Witness ==
    /\ pc = "returned"
    /\ Signalled
    /\ LastStep.action_type = "done"
    /\ Len(ctx.steps) = 2
    /\ max_turns = 4

\* C2: for max_turns >= 1 a run makes one planning call, then at most
\* max_turns - 1 execution turns: never more than max_turns calls nor more
\* than max_turns - 1 steps; a run that used up its budget returns its
\* context; and every run ends.
C2_TurnBudget ==
    /\ [](max_turns >= 1 =>
            /\ llm_calls <= max_turns
            /\ Len(ctx.steps) <= max_turns - 1)
    /\ []((instructions = build_plan_prompt) <=> (llm_calls = 1))
    /\ []((/\ max_turns >= 1
           /\ "plan" \in DOMAIN tracker
           /\ Len(ctx.steps) = max_turns - 1) => outcome = "return")
    /\ <>(pc \in {"returned", "raised"})

\* A run that used its whole budget without a completion signal returned.
C2_Witness ==
    /\ pc = "returned"
    /\ max_turns >= 3
    /\ llm_calls = max_turns
    /\ Len(ctx.steps) = max_turns - 1
    /\ ~Signalled

\* The latest turn's output is absent or a mapping without action_type.
MissingType == TurnAnswered /\ "action_type" \notin DOMAIN Answer

\* Turns are left in the budget after the steps recorded so far.
BudgetLeft == Len(ctx.steps) < max_turns - 1

\* What C3 and its amendment share: the turn is recorded as one step of
\* type "unknown", with empty thinking and response where those are missing.
RecordedUnknown ==
    /\ Len(ctx.steps) = llm_calls - 1
    /\ LastStep.action_type = "unknown"
    /\ ("thinking" \notin DOMAIN Answer => LastStep.thinking = "")
    /\ ("response" \notin DOMAIN Answer => LastStep.response = "")

\* C3 as stated: a turn whose structured output is absent or lacks
\* action_type is recorded as one "unknown" step, is not treated as done,
\* and the run continues with the next turn.
C3_Original ==
    MissingType => (RecordedUnknown /\ (BudgetLeft => pc = "exec"))

\* C3 amended: such a turn is recorded as one "unknown" step; it ends the
\* run exactly when the mapping carries a true is_done, and otherwise the
\* run continues with the next turn while the budget lasts.
C3_MissingTypeIsUnknown ==
    MissingType =>
        /\ RecordedUnknown
        /\ (BudgetLeft /\ ~Get(Answer, "is_done", FALSE) => pc = "exec")
        /\ (Get(Answer, "is_done", FALSE) =>
                pc \in {"cleanup", "returned"} /\ outcome = "return")

\* A turn without any structured output was recorded and the run goes on.
C3_Witness ==
    /\ MissingType
    /\ response.v.tool_input.t = "None"
    /\ pc = "exec"
    /\ Len(ctx.steps) = 2
    /\ LastStep.action_type = "unknown"

\* C4: a failing call at an execution turn never aborts the run: the call
\* returns a response instead of raising, the run does not end in an error,
\* and a turn without structured output is recorded as "unknown" with an
\* empty response.
C4_FailedCallDegrades ==
    llm_calls >= 2 =>
        /\ response.ok
        /\ outcome # "raise"
        /\ (response.v.tool_input.t = "None" =>
                /\ Len(ctx.steps) = llm_calls - 1
                /\ LastStep.action_type = "unknown"
                /\ LastStep.response = "")

\* The latest turn declared an action type.
Declared == TurnAnswered /\ "action_type" \in DOMAIN Answer

\* C5: the step recorded for a turn carries the action type the turn
\* declared, whatever the catalog, the previous step's suggestions and the
\* plan say, and such a turn stops the run only by a completion signal or
\* the end of the budget.
C5_DeclaredTypeKept ==
    [][(llm_calls' = llm_calls + 1 /\ Declared') =>
          /\ Len(ctx'.steps) = Len(ctx.steps) + 1
          /\ LastStep'.action_type = Answer'.action_type
          /\ ((~Signalled' /\ BudgetLeft') => pc' = "exec")]_vars

\* A step of a type outside the catalog, not suggested after the previous
\* step and different from the planned type was recorded; the run goes on.
C5_Witness ==
    /\ pc = "exec"
    /\ Len(ctx.steps) = 2
    /\ LastStep.action_type = "brainstorm"
    /\ LastStep.action_type \notin DOMAIN catalog
    /\ \A i \in DOMAIN get_suggestions(catalog, ctx.steps[1].action_type) :
           get_suggestions(catalog, ctx.steps[1].action_type)[i] # "brainstorm"
    /\ LastStep.planned_type = "done"

\* A step was appended by the transition.
StepRecorded == pc = "exec" /\ Len(ctx'.steps) = Len(ctx.steps) + 1

\* C6 as stated: with a non-empty plan every executed turn advances
\* plan_cursor by exactly one.
C6_Original ==
    [][(StepRecorded /\ Len(ctx.plan) > 0) =>
          ctx'.plan_cursor = ctx.plan_cursor + 1]_vars

\* C6 amended: with a non-empty plan an executed turn advances plan_cursor
\* by exactly one while plan_cursor < len(plan), matched or not, and leaves
\* it unchanged once plan_cursor = len(plan).
C6_CursorAdvance ==
    [][(StepRecorded /\ Len(ctx.plan) > 0) =>
          ctx'.plan_cursor = IF ctx.plan_cursor < Len(ctx.plan)
                             THEN ctx.plan_cursor + 1
                             ELSE ctx.plan_cursor]_vars

\* The cursor advanced on a turn that did not match the plan, and stayed
\* on the turn after the plan was used up.
C6_Witness ==
    /\ Len(ctx.plan) = 1
    /\ Len(ctx.steps) = 2
    /\ ctx.steps[1].action_type # ctx.plan[1].action_type
    /\ ctx.plan_cursor = 1

\* C7: every index the run subscripts the plan with, in the engine and in
\* build_recommendation, lies in 0..len(plan)-1, and no turn fails on a
\* plan lookup.
C7_LookupsInRange ==
    /\ \A i \in plan_reads : i >= 0 /\ i < Len(ctx.plan)
    /\ (outcome = "raise" => llm_calls >= 1 /\ ~TurnAnswered)

\* A turn was guided and executed after the plan was used up.
C7_Witness ==
    /\ Len(ctx.plan) > 0
    /\ ctx.plan_cursor = Len(ctx.plan)
    /\ Len(ctx.steps) = Len(ctx.plan) + 2
    /\ plan_reads = 0 .. (Len(ctx.plan) - 1)

\* C8: the step at 0-based position i has the planned_type of plan[i] when
\* i < len(plan) and None otherwise, whatever types were declared.
C8_PlannedTypeByPosition ==
    \A i \in 1..Len(ctx.steps) :
        ctx.steps[i].planned_type =
            IF i <= Len(ctx.plan) THEN Get(ctx.plan[i], "action_type", None)
            ELSE None

\* A step inside the plan that did not match it, and a step beyond it.
C8_Witness ==
    /\ Len(ctx.plan) = 1
    /\ Len(ctx.steps) = 2
    /\ ctx.steps[1].planned_type = "compute"
    /\ ctx.steps[1].action_type # "compute"
    /\ ctx.steps[2].planned_type = None

\* The positions at which the step's type is the plan's type.
MatchingPositions ==
    { i \in 1..Len(ctx.steps) :
        /\ i <= Len(ctx.plan)
        /\ ctx.steps[i].action_type = Get(ctx.plan[i], "action_type", None) }

\* C9: plan_adherence_rate() is the number of matching positions over
\* len(steps), 0.0 when the plan or the step list is empty; so 1.0 when
\* every position matches and 0.75 for one mismatch in four.
C9_PlanAdherence ==
    LET r == CallMethod(ctx, "plan_adherence_rate")
    IN  /\ r.ok
        /\ IF Len(ctx.plan) = 0 \/ Len(ctx.steps) = 0
           THEN r.v[1] = 0 /\ r.v[2] > 0
           ELSE /\ r.v[1] = Cardinality(MatchingPositions)
                /\ r.v[2] = Len(ctx.steps)
        /\ ((Len(ctx.plan) > 0 /\ Len(ctx.steps) > 0
             /\ Cardinality(MatchingPositions) = Len(ctx.steps))
               => r.v[1] = r.v[2])
        /\ ((Len(ctx.steps) = 4 /\ Len(ctx.plan) > 0
             /\ Cardinality(MatchingPositions) = 3)
               => 4 * r.v[1] = 3 * r.v[2])

\* The reader obtained 0.75 for four steps of which one left the plan.
C9_Witness ==
    /\ Len(ctx.steps) = 4
    /\ Len(ctx.plan) = 4
    /\ Cardinality(MatchingPositions) = 3
    /\ "plan_adherence_rate" \in DOMAIN analytics
    /\ analytics["plan_adherence_rate"].v = <<3, 4>>

\* C10: every step records the suggestion list offered before it and
\* whether its declared type was in it, and adherence_rate() yields the
\* fraction of non-first steps that followed, a value within [0, 1].
C10_RecommendationAdherence ==
    /\ \A i \in 1..Len(ctx.steps) :
           {"recommendation", "followed_recommendation"}
               \subseteq DOMAIN ctx.steps[i]
    /\ ("adherence_rate" \in DOMAIN analytics =>
           /\ analytics["adherence_rate"].ok
           /\ analytics["adherence_rate"].v[1] >= 0
           /\ analytics["adherence_rate"].v[1] <= analytics["adherence_rate"].v[2])


\* The action types that occur in the step list.
StepTypes == { ctx.steps[i].action_type : i \in 1..Len(ctx.steps) }

\* The positions of the step list that hold the action type t.
PositionsOf(t) == { i \in 1..Len(ctx.steps) : ctx.steps[i].action_type = t }

\* The sum of the values of a dict of integers.
RECURSIVE SumValues(_)
SumValues(d) ==
    IF DOMAIN d = {} THEN 0
    ELSE LET k == CHOOSE x \in DOMAIN d : TRUE
         IN  d[k] + SumValues([x \in DOMAIN d \ {k} |-> d[x]])

\* C11: for every step list, the values of action_type_counts() sum to
\* len(steps), the keys are the action types that occur, each key's count is
\* the number of steps of that type, and the mapping is empty for no steps.
C11_ActionTypeCounts ==
    LET counts == action_type_counts(ctx)
    IN  /\ SumValues(counts) = Len(ctx.steps)
        /\ DOMAIN counts = StepTypes
        /\ \A t \in DOMAIN counts : counts[t] = Cardinality(PositionsOf(t))
        /\ (Len(ctx.steps) = 0 => counts = EmptyDict)

\* A reader has received the counts of a list in which one type occurs twice
\* and another once.
C11_Witness ==
    /\ "action_type_counts" \in DOMAIN analytics
    /\ analytics.action_type_counts = Ok(action_type_counts(ctx))
    /\ Len(ctx.steps) = 3
    /\ \E a, b \in DOMAIN analytics.action_type_counts.v :
          /\ analytics.action_type_counts.v[a] = 2
          /\ analytics.action_type_counts.v[b] = 1

\* The positions i at which a step of type a is followed by one of type b.
TransitionsAt(a, b) ==
    { i \in 1..(Len(ctx.steps) - 1) :
        /\ ctx.steps[i].action_type = a
        /\ ctx.steps[i + 1].action_type = b }

\* The sum of all entries of a matrix.
RECURSIVE SumEntries(_)
SumEntries(m) ==
    IF DOMAIN m = {} THEN 0
    ELSE LET k == CHOOSE x \in DOMAIN m : TRUE
         IN  SumValues(m[k]) + SumEntries([x \in DOMAIN m \ {k} |-> m[x]])

\* C12: for every step list, transition_matrix()[a][b] is the number of
\* positions where a step of type a is directly followed by one of type b,
\* pairs that never occur are absent, the matrix is empty for at most one
\* step, and the entries of a non-empty list sum to len(steps) - 1.
C12_TransitionMatrix ==
    LET matrix == transition_matrix(ctx)
    IN  /\ DOMAIN matrix \subseteq StepTypes
        /\ \A a \in DOMAIN matrix : DOMAIN matrix[a] \subseteq StepTypes
        /\ \A a, b \in StepTypes :
              IF TransitionsAt(a, b) = {}
              THEN a \in DOMAIN matrix => b \notin DOMAIN matrix[a]
              ELSE /\ a \in DOMAIN matrix
                   /\ b \in DOMAIN matrix[a]
                   /\ matrix[a][b] = Cardinality(TransitionsAt(a, b))
        /\ \A a \in DOMAIN matrix : matrix[a] # EmptyDict
        /\ (Len(ctx.steps) <= 1 => matrix = EmptyDict)
        /\ (Len(ctx.steps) >= 1 => SumEntries(matrix) = Len(ctx.steps) - 1)

\* A reader has received a matrix in which a -> b was counted twice and
\* b -> a once.
C12_Witness ==
    /\ "transition_matrix" \in DOMAIN analytics
    /\ analytics.transition_matrix = Ok(transition_matrix(ctx))
    /\ \E a, b \in DOMAIN analytics.transition_matrix.v :
          /\ a # b
          /\ b \in DOMAIN analytics.transition_matrix.v[a]
          /\ a \in DOMAIN analytics.transition_matrix.v[b]
          /\ analytics.transition_matrix.v[a][b] = 2
          /\ analytics.transition_matrix.v[b][a] = 1

\* Engine.run has returned or has let an error propagate.
Ended == pc \in {"returned", "raised"}

\* The run's `claude mcp add` succeeded.
ChannelRegistered ==
    \E i \in 1..Len(mcp_cmds) : mcp_cmds[i] = McpCmd("add", 0)

RegistrationFailed ==
    \E i \in 1..Len(mcp_cmds) :
        mcp_cmds[i].cmd = "add" /\ mcp_cmds[i].returncode # 0

\* C14: a run whose registration of the external tool channel failed makes
\* no call to the reasoning engine.
C14_SetupFailureAborts == RegistrationFailed => llm_calls = 0

\* The session identifiers drawn so far.
UsedSessions == { uuid4(i) : i \in 1..uuids }

\* C15: starting a run resets the session; the first call of a run uses a
\* session identifier no earlier call used, every later call of the run
\* uses the session of the call before it, and the response carries it.
C15_SessionPerRun ==
    [][/\ (runs' = runs + 1 => session_id' = None)
       /\ (llm_calls' = llm_calls + 1 =>
             /\ session_id' # None
             /\ IF llm_calls = 0 THEN session_id' \notin UsedSessions
                ELSE session_id' = session_id
             /\ (response'.ok => response'.v.session_id = session_id'))]_vars

\* The second run on the same provider is at its second call or later and
\* works in the second session.
C15_Witness ==
    /\ runs = 2
    /\ llm_calls >= 2
    /\ response.ok
    /\ session_id = uuid4(2)
    /\ response.v.session_id = uuid4(2)
    /\ UsedSessions = { uuid4(1), uuid4(2) }

\* An execution turn makes its call to the reasoning engine.
ExecCall == pc = "exec" /\ llm_calls' = llm_calls + 1

\* C16: the first execution turn has no recorded step and is given the
\* initial instructions; every later turn has a last recorded step and is
\* given build_recommendation of that step's action_type, the step history,
\* the plan and the plan cursor, so the placeholder "plan" is never passed.
C16_GuidanceSelection ==
    [][ExecCall =>
         IF turn = 1
         THEN /\ Len(ctx.steps) = 0
              /\ instructions' = build_system_prompt
         ELSE /\ Len(ctx.steps) = turn - 1
              /\ Len(ctx.steps) >= 1
              /\ LET rec == build_recommendation(catalog,
                                ctx.steps[Len(ctx.steps)].action_type,
                                ctx.steps, ctx.plan, ctx.plan_cursor)
                 IN  rec.ok /\ instructions' = rec.v]_vars

\* The second execution turn of a run without a plan was answered: its
\* instructions name the type of the first step and that type's suggestions.
C16_Witness ==
    /\ llm_calls = 3
    /\ Len(ctx.plan) = 0
    /\ Len(ctx.steps) = 2
    /\ ctx.steps[1].action_type = "analyze"
    /\ instructions = << [part |-> "last", last_type |-> "analyze",
                          suggestions |-> get_suggestions(catalog, "analyze")] >>

\* A structured output of the planning call that holds no valid plan: it is
\* absent, it has no plan key, or its plan is empty.
NoValidPlan(tool_input) ==
    \/ tool_input.t = "None"
    \/ /\ tool_input.t = "dict"
       /\ \/ "plan" \notin DOMAIN tool_input.d
          \/ Len(tool_input.d.plan) = 0

\* The planning call of the run has been recorded.
Planned == "plan" \in DOMAIN tracker

\* The run has raised although its latest call returned a mapping.
RaisedOnAnsweredCall ==
    /\ outcome = "raise"
    /\ response.ok
    /\ OrEmptyDict(response.v.tool_input).t = "dict"

\* C17: a planning call that returns without a valid plan leaves the run
\* with the empty plan and raises nothing; from then on the cursor stays 0,
\* every recorded step has planned_type None, the plan is never subscripted,
\* every recommendation is the no-plan one (last action and suggestions),
\* and the run never raises on a call that was answered.
C17_NoPlanFallback ==
    /\ [][(pc = "plan" /\ llm_calls' = llm_calls + 1 /\ response'.ok
             /\ NoValidPlan(response'.v.tool_input)) =>
            /\ ctx'.plan = << >>
            /\ Planned'
            /\ outcome' # "raise"
            /\ pc' \in {"exec", "cleanup"}]_vars
    /\ []((Planned /\ Len(ctx.plan) = 0) =>
            /\ ctx.plan_cursor = 0
            /\ \A i \in 1..Len(ctx.steps) : ctx.steps[i].planned_type = None
            /\ plan_reads = {}
            /\ (llm_calls >= 3 =>
                  /\ instructions[1].part = "last"
                  /\ \A i \in 1..Len(instructions) :
                        instructions[i].part \in {"last", "nudge"})
            /\ ~RaisedOnAnsweredCall)

\* A run whose planning call gave no plan has recorded two steps under the
\* no-plan guidance and has returned.
C17_Witness ==
    /\ pc = "returned"
    /\ Planned
    /\ Len(ctx.plan) = 0
    /\ Len(ctx.steps) = 2
    /\ ctx.plan_cursor = 0
    /\ ctx.steps[2].planned_type = None
    /\ instructions[1].part = "last"

\* C18: a non-empty plan of the context ends with an entry whose
\* action_type is "done".
C18_PlanEndsWithDone ==
    Len(ctx.plan) > 0 =>
        Get(ctx.plan[Len(ctx.plan)], "action_type", None) = "done"

\* The parts of a built recommendation that have the given kind.
PartsOf(kind) ==
    { i \in 1..Len(instructions) : instructions[i].part = kind }

\* A recommendation was built from a non-empty plan.
AdvisedWithPlan == pc = "advised" /\ Len(ctx.plan) > 0

\* C19: a recommendation built from a plan holds the instruction not to
\* combine steps or signal completion exactly when the located entry
\* plan[min(plan_cursor, len(plan)-1)] is not the last entry of the plan.
C19_NoCombineUnlessFinalEntry ==
    AdvisedWithPlan =>
        (PartsOf("no_combine") # {}
            <=> Min(ctx.plan_cursor, Len(ctx.plan) - 1) # Len(ctx.plan) - 1)

\* The last three steps of the history exist and have one action_type.
LastThreeAlike ==
    /\ Len(ctx.steps) >= 3
    /\ \A i \in (Len(ctx.steps) - 2)..Len(ctx.steps) :
          ctx.steps[i].action_type = ctx.steps[Len(ctx.steps)].action_type

\* C20: a built recommendation, with or without a plan, ends with the
\* diversify nudge exactly when the history has at least 3 steps and its
\* last 3 steps share their action_type; the nudge names that type and
\* occurs once.
C20_NudgeOnRepetition ==
    pc = "advised" =>
        IF LastThreeAlike
        THEN /\ PartsOf("nudge") = { Len(instructions) }
             /\ instructions[Len(instructions)].type
                  = ctx.steps[Len(ctx.steps)].action_type
        ELSE PartsOf("nudge") = {}

\* A recommendation built from a plan and a history of four steps whose
\* first differs from the last three carries the nudge.
C20_Witness ==
    /\ AdvisedWithPlan
    /\ Len(ctx.steps) = 4
    /\ ctx.steps[1].action_type # ctx.steps[2].action_type
    /\ LastThreeAlike
    /\ PartsOf("nudge") # {}

\* _run_loop left the loop normally, by a completion signal or because the
\* turn budget was used up.
NormalExit == outcome = "return"

\* The calls of all entries of a stats dict, added up.
RECURSIVE SumCalls(_)
SumCalls(stats) ==
    IF DOMAIN stats = {} THEN 0
    ELSE LET k == CHOOSE x \in DOMAIN stats : TRUE
         IN  stats[k].calls + SumCalls([x \in DOMAIN stats \ {k} |-> stats[x]])

\* C21: on every normal exit of the loop the context's cost_stats is the
\* tracker's statistics, which cover every call of the run, the planning
\* call included: the calls add up to len(steps) + 1 and to the number of
\* calls the provider made.
C21_CostSnapshot ==
    NormalExit =>
        /\ ctx.cost_stats = tracker
        /\ "plan" \in DOMAIN ctx.cost_stats
        /\ SumCalls(ctx.cost_stats) = Len(ctx.steps) + 1
        /\ SumCalls(ctx.cost_stats) = llm_calls

\* A run returned when its turn budget was used up, with two steps and
\* three calls in its cost statistics.
C21_Witness ==
    /\ pc = "returned"
    /\ Len(ctx.steps) = 2
    /\ ~Signalled
    /\ SumCalls(ctx.cost_stats) = 3

\* C23: between turns and in the returned context turn_count is
\* len(steps) + 1: the planning call counts as one turn, and every execution
\* turn adds one step and one to turn_count.
C23_TurnCount ==
    /\ []((pc = "exec" \/ NormalExit) => ctx.turn_count = Len(ctx.steps) + 1)
    /\ [][(pc = "exec" /\ outcome' # "raise") =>
            /\ Len(ctx'.steps) = Len(ctx.steps) + 1
            /\ ctx'.turn_count = ctx.turn_count + 1]_vars

\* A run is between its second and its third execution turn.
C23_Witness ==
    /\ pc = "exec"
    /\ Len(ctx.steps) = 2
    /\ ctx.turn_count = 3

\* C30: an execution turn leaves the task, the plan and every recorded step
\* as they were and at most appends one step at the end of the list.
C30_StepsImmutable ==
    [][pc = "exec" =>
         /\ ctx'.task = ctx.task
         /\ ctx'.plan = ctx.plan
         /\ Len(ctx'.steps) \in { Len(ctx.steps), Len(ctx.steps) + 1 }
         /\ \A i \in 1..Len(ctx.steps) : ctx'.steps[i] = ctx.steps[i]]_vars

\* A third step was appended after two steps of other types.
C30_Witness ==
    /\ Len(ctx.steps) = 3
    /\ ctx.steps[1].action_type # ctx.steps[2].action_type
    /\ ctx.steps[2].action_type # ctx.steps[3].action_type
    /\ ctx.steps[2].planned_type # None

\* C22: in a returned context the cost of every execution turn lies under
\* the type the turn declared: for every type other than "plan" the calls in
\* cost_stats equal the number of steps of that type, and the "plan" entry
\* has the planning call and one call for each step declared as "plan".
C22_CostByDeclaredType ==
    NormalExit =>
        LET counts == action_type_counts(ctx)
        IN  /\ DOMAIN ctx.cost_stats = DOMAIN counts \cup {"plan"}
            /\ \A t \in DOMAIN counts \ {"plan"} :
                  ctx.cost_stats[t].calls = counts[t]
            /\ ctx.cost_stats["plan"].calls = 1 + Get(counts, "plan", 0)

\* A run with a plan returned after a step declared as "plan" and a step
\* whose declared type is not the planned one.
C22_Witness ==
    /\ pc = "returned"
    /\ \E i \in 1..Len(ctx.steps) : ctx.steps[i].action_type = "plan"
    /\ \E i \in 1..Len(ctx.steps) :
          /\ ctx.steps[i].planned_type # None
          /\ ctx.steps[i].planned_type # ctx.steps[i].action_type
          /\ ctx.steps[i].planned_type \notin DOMAIN ctx.cost_stats
    /\ ctx.cost_stats["plan"].calls = 2
    /\ "action_type_counts" \in DOMAIN analytics

\* The stats after recording the pairs recs[p[1]], recs[p[2]], ... up to n.
RECURSIVE Replay(_, _, _)
Replay(recs, p, n) ==
    IF n = 0 THEN EmptyDict
    ELSE record(Replay(recs, p, n - 1), recs[p[n]][1], recs[p[n]][2])

\* C24: the stats after a sequence of record calls are the stats after the
\* same calls in any other order, per type in cost, duration and calls; and
\* two records under one type give the sum of the two costs, the sum of the
\* two durations and calls = 2.
C24_RecordOrderIndependent ==
    pc = "tracker" =>
        /\ \A p \in Permutations(1..Len(recorded)) :
              Replay(recorded, p, Len(recorded)) = tracker
        /\ (Len(recorded) = 2 /\ recorded[1][1] = recorded[2][1] =>
              tracker[recorded[1][1]]
                = [cost_usd |-> recorded[1][2].cost_usd
                                  + recorded[2][2].cost_usd,
                   duration_ms |-> recorded[1][2].duration_ms
                                     + recorded[2][2].duration_ms,
                   calls |-> 2])

\* The costs of the first n recorded pairs, added as decimals.
RECURSIVE RecordedCost(_)
RecordedCost(n) ==
    IF n = 0 THEN 0 ELSE RecordedCost(n - 1) + recorded[n][2].cost_usd

\* C25: after any sequence of record calls total_calls() is the number of
\* calls made and total_cost() is the sum of the costs recorded, across all
\* types; report() returns these totals and the per-type stats and leaves
\* the tracker as it was.
C25_Totals ==
    /\ [](pc = "tracker" =>
            /\ total_calls(tracker, stats_keys) = Len(recorded)
            /\ total_cost(tracker, stats_keys) = RecordedCost(Len(recorded))
            /\ report(tracker, stats_keys).total_calls = Len(recorded)
            /\ report(tracker, stats_keys).total_cost_usd
                 = RecordedCost(Len(recorded))
            /\ report(tracker, stats_keys).per_action_type = tracker)
    /\ [][(pc = "tracker" /\ analytics' # analytics) =>
            (tracker' = tracker /\ stats_keys' = stats_keys)]_vars

\* The names passed to add so far.
AddedNames == { added[i].name : i \in 1..Len(added) }

\* C26: for every catalog built by add calls and every name never added,
\* get_suggestions returns the empty list, get returns None, both without an
\* error, and a lookup leaves the catalog as it was.
C26_UnknownNameIsEmpty ==
    /\ [](pc = "catalog" =>
            \A name \in LookupNames \ AddedNames :
                /\ get_suggestions(built.map, name) = << >>
                /\ name \notin DOMAIN built.map
                /\ get(built.map, name) = None)
    /\ []((pc = "catalog" /\ "name" \in DOMAIN analytics
             /\ analytics.name \notin AddedNames) =>
            /\ analytics.get_suggestions = Ok(<< >>)
            /\ analytics.get.ok
            /\ analytics.get.v = None)
    /\ [][(pc = "catalog" /\ added' = added) => built' = built]_vars

\* A name that was never added was looked up in a catalog of two types.
C26_Witness ==
    /\ pc = "catalog"
    /\ AddedNames = { "a", "b" }
    /\ "name" \in DOMAIN analytics
    /\ analytics.name = "nonexistent"
    /\ analytics.get_suggestions = Ok(<< >>)
    /\ analytics.type_names = Ok(built.keys)
    /\ Len(built.keys) = 2

\* The names of the first n add calls, each once, in the order of its first
\* add call.
RECURSIVE FirstNames(_)
FirstNames(n) ==
    IF n = 0 THEN << >>
    ELSE IF \E i \in 1..(n - 1) : added[i].name = added[n].name
         THEN FirstNames(n - 1)
         ELSE Append(FirstNames(n - 1), added[n].name)

\* The latest add call with the given name.
LastAdded(name) ==
    added[CHOOSE i \in 1..Len(added) :
            /\ added[i].name = name
            /\ \A j \in (i + 1)..Len(added) : added[j].name # name]

\* C27: after any sequence of add calls the names of the catalog are the
\* names added, each once; get(name) is the ActionType of the latest add
\* call with that name; type_names() lists the names in the order of their
\* first add call.
C27_AddOverwritesByName ==
    pc = "catalog" =>
        /\ DOMAIN built.map = AddedNames
        /\ \A i, j \in 1..Len(built.keys) :
              built.keys[i] = built.keys[j] => i = j
        /\ \A name \in AddedNames :
              /\ get(built.map, name) = LastAdded(name)
              /\ get(built.map, name).name = name
        /\ type_names(built.keys) = FirstNames(Len(added))

\* A name was added, then another, then the first name again with another
\* definition: the catalog has two names in the order of their first adds.
C27_Witness ==
    /\ pc = "catalog"
    /\ Len(added) = 3
    /\ added[1].name = "a"
    /\ added[2].name = "b"
    /\ added[3].name = "a"
    /\ added[3] # added[1]
    /\ built.keys = << "a", "b" >>
    /\ get(built.map, "a") = added[3]

\* C28: register_tool(name, function, description) registers an in-process
\* tool on the engine: the call succeeds, the builder goes on to a run, and
\* a fault of a tool is an error string in a step's tool result.
C28_InProcessTools ==
    /\ pc # "build_failed"
    /\ ("register_tool" \in DOMAIN analytics => analytics.register_tool.ok)

\* The context c and the tracker tr belong to the run given provider p,
\* which has made the given number of calls: the plan and every step are
\* p's replies in the order p gave them, and the tracker holds p's charges
\* for exactly these calls.
OwnedBy(p, c, tr, calls, at) ==
    /\ Len(c.steps) = (IF calls = 0 THEN 0 ELSE calls - 1)
    /\ \A i \in 1..Len(c.steps) :
          /\ c.steps[i].response = ProviderText(p, i)
          /\ c.steps[i].action_type = ProviderType(p)
    /\ (calls > 0 => c.plan = ProviderPlan(p))
    /\ SumCalls(tr) = calls
    /\ \A k \in DOMAIN tr : tr[k].cost_usd = tr[k].calls * ProviderCost(p)
    /\ DOMAIN tr \subseteq { "plan", ProviderType(p) }
    /\ (at = "returned" => c.cost_stats = tr)

\* C29: when two calls of run on one engine interleave at their awaits,
\* each with its own provider, the context and the tracker of each call
\* hold the steps and the charges of its own provider's replies only, the
\* steps in the order of the replies.
C29_ContextOwnedByOneRun ==
    /\ OwnedBy(current, ctx, tracker, llm_calls, pc)
    /\ OwnedBy(OtherProvider(current), other.ctx, other.tracker,
               other.llm_calls, other.pc)

\* Both calls are in their loops at once, each with one step of its own
\* provider and one call charged under the step's type.
C29_Witness ==
    /\ pc = "exec"
    /\ other.pc = "exec"
    /\ Len(ctx.steps) = 1
    /\ Len(other.ctx.steps) = 1
    /\ ctx.steps[1].response = ProviderText(current, 1)
    /\ other.ctx.steps[1].response = ProviderText(OtherProvider(current), 1)
    /\ tracker[ProviderType(current)].cost_usd = ProviderCost(current)
    /\ tracker # other.tracker

\* The instruction text presents the plan entry the turn is expected to
\* execute: it has the "Step k/total." part of the entry at the cursor.
PresentsPlanStep(instr, plan, plan_cursor) ==
    \E i \in 1..Len(instr) :
        /\ instr[i].part = "step"
        /\ instr[i].k = current_idx(plan, plan_cursor) + 1
        /\ instr[i].total = Len(plan)

\* C31: in a run with a non-empty plan, the instructions of every execution
\* call, the first one included, present the plan step expected at that
\* turn.
C31_EveryTurnPresentsPlanStep ==
    [][(ExecCall /\ Len(ctx.plan) > 0) =>
          PresentsPlanStep(instructions', ctx.plan, ctx.plan_cursor)]_vars

\* C32: between the turns of a run plan_cursor is min(len(steps),
\* len(plan)): it lies in 0..len(plan), no step of the run decreases it
\* while the run's context lives, and a turn taken with the cursor at
\* len(plan) leaves it there.
C32_CursorIsMinStepsPlan ==
    /\ [](/\ ctx.plan_cursor = Min(Len(ctx.steps), Len(ctx.plan))
          /\ ctx.plan_cursor >= 0
          /\ ctx.plan_cursor <= Len(ctx.plan))
    /\ [][pc # "idle" => ctx'.plan_cursor >= ctx.plan_cursor]_vars
    /\ [][(StepRecorded /\ ctx.plan_cursor = Len(ctx.plan)) =>
             ctx'.plan_cursor = ctx.plan_cursor]_vars

\* A plan of two entries was followed by three steps: the cursor went
\* 0, 1, 2 and stayed at 2 on the third turn.
C32_Witness ==
    /\ Len(ctx.plan) = 2
    /\ Len(ctx.steps) = 3
    /\ ctx.plan_cursor = 2

\* C33: in a run with a plan of N >= 1 entries, every execution call made
\* after N steps were recorded is given the recommendation of the final
\* plan entry, rendered as step N/N with that entry's type and description,
\* and the step it records has planned_type None.
C33_PastPlanKeepsFinalEntry ==
    [][(ExecCall /\ Len(ctx.plan) > 0 /\ Len(ctx.steps) >= Len(ctx.plan)) =>
          LET N == Len(ctx.plan)
          IN  /\ Len(instructions') >= 2
              /\ instructions'[1].part = "step"
              /\ instructions'[1].k = N
              /\ instructions'[1].total = N
              /\ instructions'[2].part = "execute"
              /\ instructions'[2].type = Get(ctx.plan[N], "action_type", "unknown")
              /\ instructions'[2].desc = Get(ctx.plan[N], "description", "")
              /\ (StepRecorded =>
                    ctx'.steps[Len(ctx'.steps)].planned_type = None)]_vars

\* A plan of two entries and a third turn: the turn was given step 2/2
\* and its step has no planned type.
C33_Witness ==
    /\ Len(ctx.plan) = 2
    /\ Len(ctx.steps) = 3
    /\ llm_calls = 4
    /\ instructions[1].part = "step"
    /\ instructions[1].k = 2
    /\ instructions[1].total = 2
    /\ ctx.steps[2].planned_type # None
    /\ ctx.steps[3].planned_type = None

\* An execution call guided by build_recommendation with the cursor inside
\* the plan.
GuidedInsidePlan ==
    /\ ExecCall
    /\ Len(ctx.steps) > 0
    /\ Len(ctx.plan) > 0
    /\ ctx.plan_cursor < Len(ctx.plan)

\* C34: on every execution turn guided by build_recommendation with the
\* cursor inside the plan, the plan entry the guidance names (step k of the
\* plan, with its type and description) is the entry whose action_type the
\* recorded step gets as planned_type, and the entry at the step's own
\* position, which is the one plan_adherence_rate() compares the step with.
C34_GuidanceMatchesBookkeeping ==
    [][GuidedInsidePlan =>
          LET k == instructions'[1].k
              n == Len(ctx'.steps)
          IN  /\ instructions'[1].part = "step"
              /\ k \in 1..Len(ctx.plan)
              /\ instructions'[2].type = Get(ctx.plan[k], "action_type", "unknown")
              /\ instructions'[2].desc = Get(ctx.plan[k], "description", "")
              /\ (StepRecorded =>
                    /\ n = k
                    /\ ctx'.steps[n].planned_type
                           = Get(ctx.plan[k], "action_type", None)
                    /\ (Matches(ctx'.plan, ctx'.steps, n)
                            = Matches(ctx'.plan, ctx'.steps, n - 1) + 1)
                         <=> (ctx'.steps[n].action_type
                                 = Get(ctx.plan[k], "action_type", None)))]_vars

\* The second turn of a run with a plan of two entries was guided to step
\* 2/2, and its step, of another type, has that entry's type as planned.
C34_Witness ==
    /\ Len(ctx.plan) = 2
    /\ Len(ctx.steps) = 2
    /\ llm_calls = 3
    /\ instructions[1].part = "step"
    /\ instructions[1].k = 2
    /\ instructions[2].type = "done"
    /\ ctx.steps[2].planned_type = "done"
    /\ ctx.steps[2].action_type = "analyze"

\* The context has a non-empty plan and more steps than plan entries.
StepsBeyondPlan == Len(ctx.plan) > 0 /\ Len(ctx.steps) > Len(ctx.plan)

\* C35: for a context with a non-empty plan and more steps than plan
\* entries, plan_adherence_rate() returns without an error, its denominator
\* is len(steps), its numerator counts matching positions inside the plan
\* only (it is what the steps inside the plan alone give, at most
\* len(plan)), and so the rate is below 1.0.
C35_StepsBeyondPlanLowerRate ==
    StepsBeyondPlan =>
        LET r == CallMethod(ctx, "plan_adherence_rate")
            inside == SubSeq(ctx.steps, 1, Len(ctx.plan))
        IN  /\ r.ok
            /\ r.v[2] = Len(ctx.steps)
            /\ r.v[1] = Matches(ctx.plan, inside, Len(inside))
            /\ r.v[1] = Cardinality(MatchingPositions)
            /\ r.v[1] <= Len(ctx.plan)
            /\ r.v[1] < r.v[2]

\* The reader obtained 3/4 for a plan of three entries that the first three
\* steps match, followed by a fourth step of the last entry's type.
C35_Witness ==
    /\ Len(ctx.plan) = 3
    /\ Len(ctx.steps) = 4
    /\ Cardinality(MatchingPositions) = 3
    /\ ctx.steps[4].action_type = ctx.plan[3].action_type
    /\ "plan_adherence_rate" \in DOMAIN analytics
    /\ analytics["plan_adherence_rate"].ok
    /\ analytics["plan_adherence_rate"].v = <<3, 4>>

\* C37: the tool_input of every response ClaudeProvider.call returns is
\* None or a JSON object, so the engine's field lookups on `tool_input or
\* {}` never fault.
C37_ToolInputNoneOrObject ==
    (llm_calls >= 1 /\ response.ok) =>
        response.v.tool_input.t \in { "None", "dict" }

\* The content blocks of the stream passed to _extract_tool_calls.
StreamBlocks == AllBlocks(stream)

\* Block j of the stream is a tool_use block with the given id.
IsToolUseOf(j, id) ==
    /\ Get(StreamBlocks[j], "type", None) = "tool_use"
    /\ Get(StreamBlocks[j], "id", "") = id

\* Block j of the stream is a tool_result block with the given id.
IsToolResultOf(j, id) ==
    /\ Get(StreamBlocks[j], "type", None) = "tool_result"
    /\ Get(StreamBlocks[j], "tool_use_id", "") = id

\* The tool_use ids among the first n blocks, each once, in the order of
\* their first appearance.
RECURSIVE FirstUseIds(_)
FirstUseIds(n) ==
    IF n = 0 THEN << >>
    ELSE IF /\ Get(StreamBlocks[n], "type", None) = "tool_use"
            /\ \A j \in 1..(n - 1) :
                  ~IsToolUseOf(j, Get(StreamBlocks[n], "id", ""))
         THEN Append(FirstUseIds(n - 1), Get(StreamBlocks[n], "id", ""))
         ELSE FirstUseIds(n - 1)

\* The tool_result blocks with the given id that come after the id's first
\* tool_use block.
LaterResults(id) ==
    { j \in 1..Len(StreamBlocks) :
        /\ IsToolResultOf(j, id)
        /\ \E u \in 1..(j - 1) : IsToolUseOf(u, id) }

\* C36: _extract_tool_calls returns one entry per distinct tool_use id, in
\* the order of the ids' first appearance (none for a stream without
\* tool_use blocks); an entry has the full name of a tool_use block of its
\* id and as short name the part after the last "__" of it; its result is
\* the content of a tool_result block of the same id that comes after the
\* tool_use, None when there is none; tool_result blocks without an earlier
\* tool_use add nothing.
C36_ToolCallsByFirstUse ==
    pc = "extracted" =>
        LET r == analytics["_extract_tool_calls"]
            ids == FirstUseIds(Len(StreamBlocks))
        IN  /\ r.ok
            /\ Len(r.v) = Len(ids)
            /\ \A i \in 1..Len(ids) :
                  /\ \E j \in 1..Len(StreamBlocks) :
                        /\ IsToolUseOf(j, ids[i])
                        /\ r.v[i].full_name = StreamBlocks[j].name
                  /\ r.v[i].name =
                        (IF Len(r.v[i].full_name) > 1
                         THEN << r.v[i].full_name[Len(r.v[i].full_name)] >>
                         ELSE r.v[i].full_name)
                  /\ IF LaterResults(ids[i]) = {}
                     THEN r.v[i].result = None
                     ELSE \E j \in LaterResults(ids[i]) :
                             r.v[i].result = StreamBlocks[j].content

====
